---- MODULE Spec2Model ----
(***************************************************************************)
(* Model of service-faas: the function lifecycle manager                   *)
(* (internal/core/functions/manager.go), its two orchestrator adapters     *)
(* (docker and kubernetes) and the process life cycle of cmd/service-faas. *)
(*                                                                         *)
(* Go strings that the code slices or concatenates (function ids,          *)
(* container ids, resource names) are sequences of one-character strings,  *)
(* so that len() and s[n:] mean what they mean in Go.                      *)
(***************************************************************************)
EXTENDS Integers, Sequences, FiniteSets, TLC

\* ---------------------------------------------------------------- bounds
\* number of function ids rand.ID16 can hand out in one behaviour
NumIds == 2
\* the longest payload passed to ExecuteFunction
MaxPayload == 2
\* number of manager calls (or loop turns) in one behaviour in which calls on the
\* record store, the file system or the backend fail
MaxFaults == 1
\* number of times the process is started in one behaviour
MaxStarts == 2

IdChars == <<"a", "b", "c", "d">>
CidChars == <<"1", "2", "3", "4", "5", "6", "7", "8", "9">>

IdChars2Id(i) == <<IdChars[i]>>
IDs == { IdChars2Id(i) : i \in 1..NumIds }
Names == { <<"h">> }

\* ---------------------------------------------------------------- strings
appName == <<"f", "a", "a", "s", "-", "w", "o", "r", "k", "e", "r">>
servicePrefix == <<"s", "e", "r", "v", "i", "c", "e", "-">>
configMapPrefix == <<"h", "a", "n", "d", "l", "e", "r", "-", "c", "o", "d", "e", "-">>
hpaPrefix == <<"h", "p", "a", "-">>
handlerPrefix == <<"function.handler.">>
FunctionStorageDir == <<"/">>

\* variant: a slice that starts one character early
SliceFromEarly(s, n) == SubSeq(s, n, Len(s))

\* Go's s[n:]; the caller checks n <= len(s), otherwise Go panics
SliceFrom(s, n) == SubSeq(s, n + 1, Len(s))

WorkerName(funcID) == appName \o <<"-">> \o funcID
CodeDir(funcID) == FunctionStorageDir \o funcID
CodeDirs == { CodeDir(i) : i \in IDs }

\* ---------------------------------------------------------------- state
VARIABLES
    env,        \* cfg.DeploymentEnv: "docker" or "kubernetes"
    phase,      \* where main() is
    db,         \* the functions table: id -> Function
    files,      \* FunctionStorageDir: code directory -> "absent" | "dir" | "file"
    backend,    \* what the docker daemon / the cluster holds
    usedIds,    \* ids rand.ID16 has returned
    starts,     \* number of processes started so far
    injected,   \* number of manager calls so far in which some call failed
    tornDown,   \* the handles on record whose resources a teardown has removed
    batch,      \* the running RestartRunningFunctions / CleanupAllFunctions loop
    inflight,   \* the requests whose handler has begun and not returned: caller -> frame
    last        \* the call of main() that ended last, and what it did

vars == <<env, phase, db, files, backend, usedIds, starts, injected, tornDown, batch,
          inflight, last>>

\* ---------------------------------------------------------------- values
Statuses == {"creating", "running", "stopped", "error"}

EmptyBackend == [containers |-> {}, objects |-> {}, image |-> FALSE]

\* a call the manager made on the Orchestrator, as the history keeps it: what was
\* passed, what came back, the backend calls it issued, the failures the environment
\* injected into it, and (for a teardown) whether an earlier teardown had already
\* removed the resources of the handle passed
Call(fn, arg, r, injectedHere, again) ==
    [fn |-> fn, arg |-> arg, ret |-> r.ret, handle |-> r.handle, port |-> r.port,
     api |-> r.api, faults |-> injectedHere, again |-> again]
RunCall(fn, run, fault) ==
    Call("RunWorker", <<fn.ID, fn.CodePath, fn.HandlerPath>>, run, {fault} \ {"none"}, FALSE)
TeardownCall(containerID, td, faults) ==
    Call("StopAndRemoveContainer", containerID, td, faults, containerID \in tornDown)

\* ---------------------------------------------------------------- docker adapter
\* the id the daemon gives a new container: one that nothing else bears
FreshContainerID(containers) ==
    LET taken == { c.id : c \in containers } \cup { db[i].ContainerID : i \in DOMAIN db }
        n == CHOOSE k \in 1..Len(CidChars) :
                 /\ <<"#", CidChars[k]>> \notin taken
                 /\ \A j \in 1..(k - 1) : <<"#", CidChars[j]>> \in taken
    IN  <<"#", CidChars[n]>>

\* the daemon's answer to ContainerRemove(ref, force): ref is an id or a name
DockerRemove(containers, ref, fails) ==
    LET kept == { c \in containers : c.id # ref /\ c.name # ref }
    IN  IF fails THEN [err |-> "error", containers |-> containers]
        ELSE IF kept = containers THEN [err |-> "not_found", containers |-> containers]
        ELSE [err |-> "nil", containers |-> kept]

\* variant: the image is pulled whenever the lookup does not fail
ensureImageAlways(image, fault) ==
    IF fault = "image_inspect" THEN [err |-> TRUE, image |-> image, pulled |-> FALSE]
    ELSE IF fault = "image_pull" THEN [err |-> TRUE, image |-> image, pulled |-> TRUE]
    ELSE [err |-> FALSE, image |-> (image \/ fault # "image_stream"), pulled |-> TRUE]

\* ensureImage: [err, image, pulled]; ImagePull is called (pulled) only when the
\* lookup says not found, and it may fail to start; the image is there afterwards
\* when the stream of the pull was read to its end
ensureImage(image, fault) ==
    IF fault = "image_inspect" THEN [err |-> TRUE, image |-> image, pulled |-> FALSE]
    ELSE IF image THEN [err |-> FALSE, image |-> TRUE, pulled |-> FALSE]
    ELSE IF fault = "image_pull" THEN [err |-> TRUE, image |-> FALSE, pulled |-> TRUE]
    ELSE [err |-> FALSE, image |-> (fault # "image_stream"), pulled |-> TRUE]

\* the decimal digits, and the HostPort string the daemon reports for a bound port
Digits == <<"0", "1", "2", "3", "4", "5", "6", "7", "8", "9">>
RECURSIVE PortString(_)
PortString(n) ==
    IF n < 10 THEN <<Digits[n + 1]>>
    ELSE Append(PortString(n \div 10), Digits[(n % 10) + 1])

\* variant: a conversion that always fails
AtoiFailing(str) == 0

\* hostPort, _ := strconv.Atoi(hostPortStr): the number the string denotes; 0 when
\* the string is empty or holds anything but digits (the error is dropped)
RECURSIVE DigitsValue(_)
DigitsValue(str) ==
    IF str = <<>> THEN 0
    ELSE 10 * DigitsValue(SubSeq(str, 1, Len(str) - 1))
           + ((CHOOSE d \in 1..10 : Digits[d] = str[Len(str)]) - 1)
Atoi(str) ==
    IF str = <<>> \/ \E k \in 1..Len(str) : \A d \in 1..10 : Digits[d] # str[k]
    THEN 0
    ELSE DigitsValue(str)

\* variant: no container is removed before the new one is created
SweepNothing(containers, name, fails) == containers

\* _ = c.cli.ContainerRemove(ctx, name, container.RemoveOptions{Force: true})
SweepStale(containers, name, fails) == DockerRemove(containers, name, fails).containers

\* Client.RunWorker of the docker adapter.  fault names the daemon call that fails
\* ("none": all succeed; "exited": the container has stopped before it is inspected,
\* so the inspection lists no port binding).
DockerRunWorker(be, fs, funcID, codePath, handlerPath, fault, port) ==
    LET name == WorkerName(funcID)
        img == ensureImage(be.image, fault)
        pullApi == IF img.pulled THEN <<<<"ImagePull">>>> ELSE <<>>
        imgApi == <<<<"ImageInspect">>>> \o pullApi
        \* ContainerRemove(name, force): its error is dropped
        swept == SweepStale(be.containers, name, fault = "rm_stale")
        rmApi == imgApi \o <<<<"ContainerRemove", name>>>>
        id == FreshContainerID(swept)
        createFails == \/ fault = "create"
                       \/ ~img.image
                       \/ \E c \in swept : c.name = name
        created == swept \cup {[id |-> id, name |-> name, state |-> "created", port |-> 0]}
        crApi == rmApi \o <<<<"ContainerCreate", name>>>>
        started == swept \cup {[id |-> id, name |-> name, state |-> "running", port |-> port]}
        stApi == crApi \o <<<<"ContainerStart", id>>>>
        exited == swept \cup {[id |-> id, name |-> name, state |-> "exited", port |-> 0]}
        inApi == stApi \o <<<<"ContainerInspect", id>>>>
        Out(ret, h, p, cs, im, api) ==
            [ret |-> ret, handle |-> h, port |-> p,
             be |-> [be EXCEPT !.containers = cs, !.image = im], api |-> api]
    IN  IF img.err THEN Out("error", <<>>, 0, be.containers, img.image, imgApi)
        ELSE IF createFails THEN Out("error", <<>>, 0, swept, img.image, crApi)
        ELSE IF fault = "start" THEN Out("error", <<>>, 0, created, img.image, stApi)
        ELSE IF fault = "inspect" THEN Out("error", <<>>, 0, started, img.image, inApi)
        ELSE IF fault = "exited" THEN Out("panic", <<>>, 0, exited, img.image, inApi)
        ELSE Out("ok", id, Atoi(PortString(port)), started, img.image, inApi)

\* err != nil && !client.IsErrNotFound(err)
DockerSurfaced(err) == err \notin {"nil", "not_found"}

\* Client.StopAndRemoveContainer of the docker adapter
DockerStopAndRemoveContainer(be, containerID, faults) ==
    IF containerID = <<>>
    THEN [ret |-> "ok", handle |-> <<>>, port |-> 0, be |-> be, api |-> <<>>]
    ELSE LET rm == DockerRemove(be.containers, containerID, "container" \in faults)
         IN  [ret |-> IF DockerSurfaced(rm.err) THEN "error" ELSE "ok",
              handle |-> <<>>, port |-> 0,
              be |-> [be EXCEPT !.containers = rm.containers],
              api |-> <<<<"ContainerRemove", containerID>>>>]

\* ---------------------------------------------------------------- kubernetes adapter
Object(kind, name, nodePort) == [kind |-> kind, name |-> name, nodePort |-> nodePort]
HasObject(objs, kind, name) == \E o \in objs : o.kind = kind /\ o.name = name

\* the API server's answer to Create
K8sCreate(objs, kind, name, nodePort, fails) ==
    IF fails THEN [err |-> "error", objs |-> objs]
    ELSE IF HasObject(objs, kind, name) THEN [err |-> "already_exists", objs |-> objs]
    ELSE [err |-> "nil", objs |-> objs \cup {Object(kind, name, nodePort)}]

\* the API server's answer to Delete
K8sDelete(objs, kind, name, fails) ==
    IF fails THEN [err |-> "error", objs |-> objs]
    ELSE IF ~HasObject(objs, kind, name) THEN [err |-> "not_found", objs |-> objs]
    ELSE [err |-> "nil", objs |-> { o \in objs : ~(o.kind = kind /\ o.name = name) }]

\* err != nil && !errors.IsAlreadyExists(err)
K8sCreateFailed(err) == err \notin {"nil", "already_exists"}

\* variant: a teardown that does not tolerate "not found"
K8sSurfacedStrict(err) == err # "nil"

\* err != nil && !errors.IsNotFound(err)
K8sSurfaced(err) == err \notin {"nil", "not_found"}

\* Client.RunWorker of the kubernetes adapter.  fault names the step that fails.
\* On "already exists" Create returns an empty Service, so Spec.Ports[0] is out of
\* range and the call panics.
K8sRunWorker(be, fs, funcID, codePath, handlerPath, fault, port) ==
    LET deploymentName == appName \o <<"-">> \o funcID
        cmName == configMapPrefix \o funcID
        svcName == servicePrefix \o funcID
        hpaName == hpaPrefix \o funcID
        cm == K8sCreate(be.objects, "configmap", cmName, 0, fault = "configmap")
        cmApi == <<<<"Create", "configmap", cmName>>>>
        dep == K8sCreate(cm.objs, "deployment", deploymentName, 0, fault = "deployment")
        depApi == cmApi \o <<<<"Create", "deployment", deploymentName>>>>
        svc == K8sCreate(dep.objs, "service", svcName, port, fault = "service")
        svcApi == depApi \o <<<<"Create", "service", svcName>>>>
        hpa == K8sCreate(svc.objs, "hpa", hpaName, 0, fault = "hpa")
        hpaApi == svcApi \o <<<<"Create", "hpa", hpaName>>>>
        Out(ret, h, p, objs, api) ==
            [ret |-> ret, handle |-> h, port |-> p,
             be |-> [be EXCEPT !.objects = objs], api |-> api]
    IN  IF fault \in {"open", "read"} \/ fs[codePath] # "file"
        THEN Out("error", <<>>, 0, be.objects, <<>>)
        ELSE IF K8sCreateFailed(cm.err) THEN Out("error", <<>>, 0, cm.objs, cmApi)
        ELSE IF K8sCreateFailed(dep.err) THEN Out("error", <<>>, 0, dep.objs, depApi)
        ELSE IF K8sCreateFailed(svc.err) THEN Out("error", <<>>, 0, svc.objs, svcApi)
        ELSE IF K8sCreateFailed(hpa.err) THEN Out("error", <<>>, 0, hpa.objs, hpaApi)
        ELSE IF svc.err = "already_exists" THEN Out("panic", <<>>, 0, hpa.objs, hpaApi)
        ELSE Out("ok", deploymentName, port, hpa.objs, hpaApi)

\* variant: a teardown that deletes the deployment before the HPA
K8sStopAndRemoveContainerSwapped(be, containerID, faults) ==
    IF Len(containerID) < Len(appName) + 1
    THEN [ret |-> "panic", handle |-> <<>>, port |-> 0, be |-> be, api |-> <<>>]
    ELSE
    LET deploymentName == containerID
        funcID == SliceFrom(containerID, Len(appName) + 1)
        serviceName == servicePrefix \o funcID
        configMapName == configMapPrefix \o funcID
        hpaName == hpaPrefix \o funcID
        dep == K8sDelete(be.objects, "deployment", deploymentName, "deployment" \in faults)
        depApi == <<<<"Delete", "deployment", deploymentName, "Foreground">>>>
        hpa == K8sDelete(dep.objs, "hpa", hpaName, "hpa" \in faults)
        hpaApi == depApi \o <<<<"Delete", "hpa", hpaName>>>>
        svc == K8sDelete(hpa.objs, "service", serviceName, "service" \in faults)
        svcApi == hpaApi \o <<<<"Delete", "service", serviceName>>>>
        cm == K8sDelete(svc.objs, "configmap", configMapName, "configmap" \in faults)
        cmApi == svcApi \o <<<<"Delete", "configmap", configMapName>>>>
        Out(ret, objs, api) ==
            [ret |-> ret, handle |-> <<>>, port |-> 0,
             be |-> [be EXCEPT !.objects = objs], api |-> api]
    IN  IF K8sSurfaced(dep.err) THEN Out("error", dep.objs, depApi)
        ELSE IF K8sSurfaced(svc.err) THEN Out("error", svc.objs, svcApi)
        ELSE IF K8sSurfaced(cm.err) THEN Out("error", cm.objs, cmApi)
        ELSE Out("ok", cm.objs, cmApi)

\* Client.StopAndRemoveContainer of the kubernetes adapter.  faults: the kinds whose
\* Delete fails with an error other than not-found.  The log keeps the Delete calls
\* in the order issued, the deployment's with its propagation policy.
K8sStopAndRemoveContainer(be, containerID, faults) ==
    IF Len(containerID) < Len(appName) + 1
    THEN \* containerID[len(appName)+1:]: slice bounds out of range
         [ret |-> "panic", handle |-> <<>>, port |-> 0, be |-> be, api |-> <<>>]
    ELSE
    LET deploymentName == containerID
        funcID == SliceFrom(containerID, Len(appName) + 1)
        serviceName == servicePrefix \o funcID
        configMapName == configMapPrefix \o funcID
        hpaName == hpaPrefix \o funcID
        hpa == K8sDelete(be.objects, "hpa", hpaName, "hpa" \in faults)
        hpaApi == <<<<"Delete", "hpa", hpaName>>>>
        dep == K8sDelete(hpa.objs, "deployment", deploymentName, "deployment" \in faults)
        depApi == hpaApi \o <<<<"Delete", "deployment", deploymentName, "Foreground">>>>
        svc == K8sDelete(dep.objs, "service", serviceName, "service" \in faults)
        svcApi == depApi \o <<<<"Delete", "service", serviceName>>>>
        cm == K8sDelete(svc.objs, "configmap", configMapName, "configmap" \in faults)
        cmApi == svcApi \o <<<<"Delete", "configmap", configMapName>>>>
        Out(ret, objs, api) ==
            [ret |-> ret, handle |-> <<>>, port |-> 0,
             be |-> [be EXCEPT !.objects = objs], api |-> api]
    IN  IF K8sSurfaced(dep.err) THEN Out("error", dep.objs, depApi)
        ELSE IF K8sSurfaced(svc.err) THEN Out("error", svc.objs, svcApi)
        ELSE IF K8sSurfaced(cm.err) THEN Out("error", cm.objs, cmApi)
        ELSE Out("ok", cm.objs, cmApi)

\* ---------------------------------------------------------------- ports
\* The host port (docker) or node port (kubernetes) a backend assigns to a new worker
\* is one no live worker and no record holds: the first such number stands for any.
PortsHeld ==
    { c.port : c \in backend.containers } \cup { o.nodePort : o \in backend.objects }
        \cup { db[i].HostPort : i \in DOMAIN db }
Ports ==
    { k \in 9..(9 + 2 * NumIds) : /\ k \notin PortsHeld
                                  /\ \A j \in 9..(k - 1) : j \in PortsHeld }

\* ---------------------------------------------------------------- Orchestrator
\* the interface, bound in main() to the adapter cfg.DeploymentEnv selects
RunWorker(e, be, fs, funcID, codePath, handlerPath, fault, port) ==
    IF e = "docker" THEN DockerRunWorker(be, fs, funcID, codePath, handlerPath, fault, port)
    ELSE K8sRunWorker(be, fs, funcID, codePath, handlerPath, fault, port)

\* variant: a teardown that reports success and removes nothing
LeaveRunning(e, be, containerID, faults) ==
    [ret |-> "ok", handle |-> <<>>, port |-> 0, be |-> be, api |-> <<>>]

StopAndRemoveContainer(e, be, containerID, faults) ==
    IF e = "docker" THEN DockerStopAndRemoveContainer(be, containerID, faults)
    ELSE K8sStopAndRemoveContainer(be, containerID, faults)

\* the failures the environment can inject into one RunWorker call
RunFaults(e) ==
    IF e = "docker"
    THEN {"none", "image_inspect", "image_pull", "image_stream", "rm_stale",
          "create", "start", "inspect", "exited"}
    ELSE {"none", "open", "read", "configmap", "deployment", "service", "hpa"}

\* ... and into one StopAndRemoveContainer call (a Delete after a returned error is
\* never issued, so one returned failure at most is chosen)
TeardownFaults(e) ==
    IF e = "docker" THEN {{}, {"container"}}
    ELSE { h \cup f : h \in {{}, {"hpa"}},
                      f \in {{}, {"deployment"}, {"service"}, {"configmap"}} }

\* ---------------------------------------------------------------- injected failures
Bit(b) == IF b THEN 1 ELSE 0
\* n more manager calls may meet failures
Affordable(n) == injected + n <= MaxFaults

\* ---------------------------------------------------------------- Function records
\* time.Now().UTC(): the time advances with every id drawn
Now == Cardinality(usedIds) + 1

\* variant: the record is created with the handle its worker will have
NewFunctionNamed(funcID, functionName) ==
    [ID |-> funcID,
     FunctionName |-> functionName,
     HandlerPath |-> handlerPrefix \o functionName,
     CodePath |-> CodeDir(funcID),
     ContainerID |-> WorkerName(funcID),
     ContainerName |-> WorkerName(funcID),
     HostPort |-> 0,
     Status |-> "creating",
     CreatedAt |-> Now]

\* the Function AddFunction builds before it creates the record
NewFunction(funcID, functionName) ==
    [ID |-> funcID,
     FunctionName |-> functionName,
     HandlerPath |-> handlerPrefix \o functionName,
     CodePath |-> CodeDir(funcID),
     ContainerID |-> <<>>,
     ContainerName |-> WorkerName(funcID),
     HostPort |-> 0,
     Status |-> "creating",
     CreatedAt |-> Now]

\* variant: the provisioning failure is not recorded in the status
AsCreated(fn) == fn

\* variant: the failure is recorded and the handler path cleared
AsErrorUnnamed(fn) == [fn EXCEPT !.Status = "error", !.HandlerPath = <<>>]

\* variant: the failure path stores the record as running
AsErrorRunning(fn) == [fn EXCEPT !.Status = "running"]

\* fn.Status = StatusError
AsError(fn) == [fn EXCEPT !.Status = "error"]

\* variants: the check looks at the endpoint only; there is no check
RunnableByPort(fn) == fn.HostPort # 0
RunnableAlways(fn) == TRUE

\* fn.Status == StatusRunning && fn.HostPort != 0
Runnable(fn) == fn.Status = "running" /\ fn.HostPort # 0

\* gorm: Create / Save (an upsert on the primary key) / Delete
Put(table, fn) == [i \in DOMAIN table \cup {fn.ID} |-> IF i = fn.ID THEN fn ELSE table[i]]
\* variant: a delete that leaves the row in the table
SoftDrop(table, funcID) == table
Drop(table, funcID) == [i \in DOMAIN table \ {funcID} |-> table[i]]
Rows(table) == { table[i] : i \in DOMAIN table }

\* what `last` holds about a finished manager call
\* (faulty: the record-store and file-system steps that failed in it; sent: the
\* requests sent to workers; out: the records returned; sel, per: the records a
\* reconciliation pass selected and what became of each; input, code, body: for a
\* call made by an HTTP handler, what was wrong with the request, and the status
\* code and body of the response)
Ended(op, id, ret, calls, faulty) ==
    [op |-> op, id |-> id, ret |-> ret, calls |-> calls, faulty |-> faulty,
     sent |-> <<>>, out |-> {}, sel |-> {}, per |-> {},
     input |-> "none", code |-> 0, body |-> [kind |-> "none", members |-> {}]]

NoBatch == [pending |-> {}, calls |-> <<>>, sel |-> {}, per |-> {}]

\* the callers whose requests the server handles at the same time, each in its own
\* goroutine; Idle: the frame of a caller with no request in progress
MaxCallers == 2
Callers == 1..MaxCallers
Idle ==
    [op |-> "none", pc |-> "idle", calls |-> <<>>,
     fn |-> [NewFunction(<<>>, <<>>) EXCEPT !.CreatedAt = 0]]
NoRequests == [c \in Callers |-> Idle]

\* ---------------------------------------------------------------- Manager.AddFunction
\* x: the outcomes of the environment: x.fs ("none" or the file-system step that
\* fails), x.create (db.Create fails), x.run and x.port (RunWorker), x.save (db.Save
\* fails), x.td (StopAndRemoveContainer).
\* variant: the worker is started before the outcome of the file-system steps and of
\* db.Create is looked at
AddFunctionCallHasty(funcID, functionName, x) ==
    LET fn == NewFunction(funcID, functionName)
        fsDone == [files EXCEPT ![fn.CodePath] = IF x.fs = "none" THEN "file" ELSE "dir"]
        run == RunWorker(env, backend, fsDone, fn.ID, fn.CodePath, fn.HandlerPath, "none", x.port)
        running == [fn EXCEPT !.ContainerID = run.handle, !.HostPort = run.port,
                              !.Status = "running"]
        ret == IF x.fs # "none" THEN "storage_error"
               ELSE IF x.create THEN "db_create_error"
               ELSE IF run.ret = "ok" THEN "ok" ELSE "provision_error"
    IN  [db |-> IF ret = "ok" THEN Put(db, running) ELSE db,
         files |-> fsDone, backend |-> run.be,
         last |-> [Ended("AddFunction", funcID, ret, <<RunCall(fn, run, "none")>>, {})
                      EXCEPT !.out = IF ret = "ok" THEN {running} ELSE {}]]

AddFunctionCall(funcID, functionName, x) ==
    LET fn == NewFunction(funcID, functionName)
        codeDir == fn.CodePath
        fsDone == [files EXCEPT ![codeDir] =
                      CASE x.fs = "mkdir" -> @
                        [] x.fs = "create" -> "dir"
                        [] OTHER -> "file"]
        created == Put(db, fn)
        run == RunWorker(env, backend, fsDone, fn.ID, fn.CodePath, fn.HandlerPath, x.run, x.port)
        runCall == RunCall(fn, run, x.run)
        failed == AsError(fn)
        running == [fn EXCEPT !.ContainerID = run.handle, !.HostPort = run.port,
                              !.Status = "running"]
        td == StopAndRemoveContainer(env, run.be, running.ContainerID, x.td)
        tdCall == TeardownCall(running.ContainerID, td, x.td)
    IN  IF x.fs # "none"
        THEN [db |-> db, files |-> fsDone, backend |-> backend,
              last |-> Ended("AddFunction", funcID, "storage_error", <<>>, {x.fs})]
        ELSE IF x.create
        THEN [db |-> db, files |-> fsDone, backend |-> backend,
              last |-> Ended("AddFunction", funcID, "db_create_error", <<>>, {"create"})]
        ELSE IF run.ret = "panic"
        THEN [db |-> created, files |-> fsDone, backend |-> run.be,
              last |-> Ended("AddFunction", funcID, "panic", <<runCall>>, {})]
        ELSE IF run.ret = "error"
        THEN [db |-> IF x.save THEN created ELSE Put(created, failed),
              files |-> fsDone, backend |-> run.be,
              last |-> Ended("AddFunction", funcID, "provision_error", <<runCall>>,
                            IF x.save THEN {"save"} ELSE {})]
        ELSE IF ~x.save
        THEN [db |-> Put(created, running), files |-> fsDone, backend |-> run.be,
              last |-> [Ended("AddFunction", funcID, "ok", <<runCall>>, {})
                            EXCEPT !.out = {running}]]
        ELSE [db |-> created, files |-> fsDone, backend |-> td.be,
              last |-> Ended("AddFunction", funcID,
                             IF td.ret = "panic" THEN "panic" ELSE "db_save_error",
                             <<runCall, tdCall>>, {"save"})]

\* the outcomes worth telling apart
AddInputs ==
    LET X(fs, cr, rf, p, sv, td) ==
            [fs |-> fs, create |-> cr, run |-> rf, port |-> p, save |-> sv, td |-> td]
    IN  { X(f, FALSE, "none", p, FALSE, {}) : f \in {"mkdir", "create", "copy"}, p \in Ports }
        \cup { X("none", TRUE, "none", p, FALSE, {}) : p \in Ports }
        \cup { X("none", FALSE, rf, p, sv, {}) :
                    rf \in RunFaults(env), p \in Ports, sv \in BOOLEAN }
        \cup { X("none", FALSE, "none", p, TRUE, td) : p \in Ports, td \in TeardownFaults(env) }

AddCost(x) ==
    Bit(x.fs # "none" \/ x.create \/ x.run # "none" \/ x.save \/ x.td # {})

\* rand.ID16: an id never returned before (the ids are interchangeable: the first
\* unused one stands for any)
FreshIds ==
    { IdChars2Id(i) : i \in { k \in 1..NumIds : /\ IdChars2Id(k) \notin usedIds
                                                /\ \A j \in 1..(k - 1) : IdChars2Id(j) \in usedIds } }

\* ---------------------------------------------------------------- Manager.ExecuteFunction
\* The characters a payload is made of, each with its code point: a letter, the
\* quote, the backslash, and four that are not printable: line feed, bell, U+0001
\* and the soft hyphen U+00AD.  A payload is a sequence of them.
CodePoint ==
    [c \in {"a", "\"", "\\", "LF", "BEL", "SOH", "SHY"} |->
        CASE c = "a" -> 97 [] c = "\"" -> 34 [] c = "\\" -> 92 [] c = "LF" -> 10
          [] c = "BEL" -> 7 [] c = "SOH" -> 1 [] c = "SHY" -> 173]
PayloadChars == DOMAIN CodePoint
Payloads == UNION { [1..n -> PayloadChars] : n \in 0..MaxPayload }

\* lower-case hexadecimal, as strconv writes it: the last width digits of n
HexDigits == Digits \o <<"a", "b", "c", "d", "e", "f">>
RECURSIVE Hex(_, _)
Hex(n, width) ==
    IF width = 0 THEN <<>>
    ELSE Append(Hex(n \div 16, width - 1), HexDigits[(n % 16) + 1])

\* %q of one character (strconv.Quote): quote and backslash get a backslash, a
\* printable character is written as it is, \a \b \f \n \r \t \v have their letter,
\* any other character below space is \x and two digits, any other unprintable
\* character below U+10000 is \u and four digits
QuoteRune(c) ==
    CASE c \in {"\"", "\\"} -> <<"\\", c>>
      [] c = "LF" -> <<"\\", "n">>
      [] c = "BEL" -> <<"\\", "a">>
      [] CodePoint[c] < 32 \/ CodePoint[c] = 127 -> <<"\\", "x">> \o Hex(CodePoint[c], 2)
      [] c = "SHY" -> <<"\\", "u">> \o Hex(CodePoint[c], 4)
      [] OTHER -> <<c>>

\* %q of a string
RECURSIVE QuoteInner(_)
QuoteInner(str) ==
    IF str = <<>> THEN <<>> ELSE QuoteRune(Head(str)) \o QuoteInner(Tail(str))
Quote(str) == <<"\"">> \o QuoteInner(str) \o <<"\"">>

\* reqBody := fmt.Sprintf(`{"payload": %q}`, payload), character by character
reqBody(payload) ==
    <<"{", "\"", "p", "a", "y", "l", "o", "a", "d", "\"", ":", " ">> \o Quote(payload) \o <<"}">>

\* What comes back from the worker.  err: "do" (the request fails), "read" (reading
\* the body fails) or "nil"; status: the status code; body: the document in the
\* body, with the raw text of each member of an object.
Doc(kind, members) == [kind |-> kind, members |-> members]
Reply(err, status, body) == [err |-> err, status |-> status, body |-> body]
WorkerBodies ==
    { Doc("malformed", {}), Doc("array", {}), Doc("null", {}),
      Doc("object", {<<"error", "\"x\"">>}),
      Doc("object", {<<"result", "1">>}),
      Doc("object", {<<"result", "\"x\"">>, <<"error", "1">>}) }
Responses ==
    { Reply("do", 0, Doc("malformed", {})), Reply("read", 200, Doc("malformed", {})) }
        \cup { Reply("nil", st, Doc("object", {<<"result", "1">>})) : st \in {201, 500} }
        \cup { Reply("nil", 200, b) : b \in WorkerBodies }

\* json.Unmarshal(bodyBytes, &result) into struct { Result json.RawMessage }: an
\* error for a body that is not JSON or is JSON of another shape than an object;
\* null leaves the struct as it is; of an object, the raw text of the member result
\* is kept and every other member is skipped.  "" is the nil RawMessage.
Unmarshal(body) ==
    IF body.kind \in {"malformed", "array"} THEN [err |-> TRUE, Result |-> ""]
    ELSE IF body.kind = "null" \/ \A m \in body.members : m[1] # "result"
    THEN [err |-> FALSE, Result |-> ""]
    ELSE [err |-> FALSE,
          Result |-> (CHOOSE m \in body.members : m[1] = "result")[2]]

\* ExecuteFunction from the request on, for the record fn it loaded.  resp: what
\* comes back from the worker.  sent: the request issued; out: the reply, the result
\* returned and, for a status other than 200, the status and body the error carries.
Forward(fn, payload, resp) ==
    LET request == [port |-> fn.HostPort, payload |-> payload, body |-> reqBody(payload)]
        result == Unmarshal(resp.body)
        Done(ret, res, detail) ==
            [Ended("ExecuteFunction", fn.ID, ret, <<>>, {})
                EXCEPT !.sent = <<request>>,
                       !.out = {[reply |-> resp, result |-> res, detail |-> detail]}]
    IN  IF resp.err # "nil" THEN Done("execution_error", "", <<>>)
        ELSE IF resp.status # 200
        THEN Done("execution_error", "", <<resp.status, resp.body>>)
        ELSE IF result.err THEN Done("execution_error", "", <<>>)
        ELSE Done("ok", result.Result, <<>>)

\* loadFails: db.First fails for a reason other than absence
ExecuteFunctionCall(functionID, payload, loadFails, resp) ==
    IF loadFails \/ functionID \notin DOMAIN db
    THEN Ended("ExecuteFunction", functionID, "not_found", <<>>,
               IF loadFails THEN {"load"} ELSE {})
    ELSE IF ~Runnable(db[functionID])
    THEN Ended("ExecuteFunction", functionID, "not_running", <<>>, {})
    ELSE Forward(db[functionID], payload, resp)

\* the inputs of one call: the payload and the worker's answer matter only when a
\* request is sent
ExecuteInputs(functionID, payloads, responses) ==
    LET reaches == functionID \in DOMAIN db /\ Runnable(db[functionID])
    IN  { [load |-> TRUE, payload |-> <<>>, resp |-> Reply("do", 0, Doc("malformed", {}))] }
        \cup { [load |-> FALSE, payload |-> p, resp |-> r] :
                  p \in (IF reaches THEN payloads ELSE {<<>>}),
                  r \in (IF reaches THEN responses
                                    ELSE {Reply("do", 0, Doc("malformed", {}))}) }

\* ---------------------------------------------------------------- Manager.ListFunctions
\* variant: a listing of the running functions only
ListRunningCall(findFails) ==
    IF findFails THEN Ended("ListFunctions", <<>>, "db_error", <<>>, {"find"})
    ELSE [Ended("ListFunctions", <<>>, "ok", <<>>, {})
             EXCEPT !.out = { f \in Rows(db) : f.Status = "running" }]

\* m.db.Find(&functions)
ListFunctionsCall(findFails) ==
    IF findFails THEN Ended("ListFunctions", <<>>, "db_error", <<>>, {"find"})
    ELSE [Ended("ListFunctions", <<>>, "ok", <<>>, {}) EXCEPT !.out = Rows(db)]

\* ---------------------------------------------------------------- Manager.RemoveFunction
\* x.load (db.First fails), x.td (teardown faults), x.rm (os.RemoveAll: "ok", "fail",
\* or "partial": handler.py is gone, the directory is not), x.delete (db.Delete fails)
\* variant: the code directory derived from the id is removed before the lookup
RemoveUnfoundPurging(functionID, loadFails) ==
    [db |-> db, files |-> [files EXCEPT ![CodeDir(functionID)] = "absent"],
     backend |-> backend,
     last |-> Ended("RemoveFunction", functionID, "not_found", <<>>,
                   IF loadFails THEN {"load"} ELSE {})]

\* RemoveFunction when db.First returns an error: return "function not found"
RemoveUnfound(functionID, loadFails) ==
    [db |-> db, files |-> files, backend |-> backend,
     last |-> Ended("RemoveFunction", functionID, "not_found", <<>>,
                   IF loadFails THEN {"load"} ELSE {})]

RemoveFunctionCall(functionID, x) ==
    LET fn == db[functionID]
        td == StopAndRemoveContainer(env, backend, fn.ContainerID, x.td)
        tdCall == TeardownCall(fn.ContainerID, td, x.td)
        failing == (IF x.rm # "ok" THEN {"rm"} ELSE {})
                       \cup (IF x.delete THEN {"delete"} ELSE {})
        removed == [files EXCEPT ![fn.CodePath] =
                       CASE x.rm = "ok" -> "absent"
                         [] x.rm = "partial" /\ @ = "file" -> "dir"
                         [] OTHER -> @]
    IN  IF x.load \/ functionID \notin DOMAIN db
        THEN RemoveUnfound(functionID, x.load)
        ELSE IF td.ret = "panic"
        THEN [db |-> db, files |-> files, backend |-> td.be,
              last |-> Ended("RemoveFunction", functionID, "panic", <<tdCall>>, {})]
        ELSE IF x.delete
        THEN [db |-> db, files |-> removed, backend |-> td.be,
              last |-> Ended("RemoveFunction", functionID, "db_delete_error", <<tdCall>>, failing)]
        ELSE [db |-> Drop(db, functionID), files |-> removed, backend |-> td.be,
              last |-> Ended("RemoveFunction", functionID, "ok", <<tdCall>>, failing)]

RemoveInputs ==
    { [load |-> TRUE, td |-> {}, rm |-> "ok", delete |-> FALSE] }
    \cup { [load |-> FALSE, td |-> td, rm |-> rm, delete |-> d] :
              td \in TeardownFaults(env), rm \in {"ok", "fail", "partial"}, d \in BOOLEAN }

RemoveCost(x) == Bit(x.load \/ x.td # {} \/ x.rm # "ok" \/ x.delete)

\* ---------------------------------------------------------------- torn-down handles
\* what a backend holds under a handle: the container with that id or name, or the
\* four objects whose names the kubernetes adapter derives from it
ResourcesOf(e, be, handle) ==
    IF e = "docker"
    THEN { c \in be.containers : c.id = handle \/ c.name = handle }
    ELSE IF Len(handle) < Len(appName) + 1 THEN {}
    ELSE LET funcID == SliceFrom(handle, Len(appName) + 1)
         IN  { o \in be.objects :
                 \/ o.kind = "deployment" /\ o.name = handle
                 \/ o.kind = "service" /\ o.name = servicePrefix \o funcID
                 \/ o.kind = "configmap" /\ o.name = configMapPrefix \o funcID
                 \/ o.kind = "hpa" /\ o.name = hpaPrefix \o funcID }

\* the handles still on record for which a teardown has reported success and left
\* nothing behind, and nothing has been provisioned under them since
Tracked(old, calls, be, table) ==
    { h \in { table[i].ContainerID : i \in DOMAIN table } \ {<<>>} :
        /\ ResourcesOf(env, be, h) = {}
        /\ \/ h \in old
           \/ \E k \in DOMAIN calls : /\ calls[k].fn = "StopAndRemoveContainer"
                                       /\ calls[k].arg = h
                                       /\ calls[k].ret = "ok" }

\* ---------------------------------------------------------------- Manager.RestartRunningFunctions
\* the body of the loop for one selected record fn (the copy the query returned):
\* x.run, x.port (RunWorker), x.save (db.Save fails)
RestartFunction(fn, x) ==
    LET run == RunWorker(env, backend, files, fn.ID, fn.CodePath, fn.HandlerPath, x.run, x.port)
        call == RunCall(fn, run, x.run)
        updated == IF run.ret = "error"
                   THEN [fn EXCEPT !.Status = "stopped"]
                   ELSE [fn EXCEPT !.ContainerID = run.handle, !.HostPort = run.port]
    IN  [ret |-> run.ret,
         db |-> IF run.ret = "panic" \/ x.save THEN db ELSE Put(db, updated),
         backend |-> run.be,
         call |-> call,
         per |-> [id |-> fn.ID, prov |-> run.ret, handle |-> run.handle,
                  port |-> run.port, saved |-> (run.ret # "panic" /\ ~x.save),
                  stale |-> ResourcesOf(env, backend, WorkerName(fn.ID)) # {}]]

\* ---------------------------------------------------------------- Manager.CleanupAllFunctions
\* variant: the loop tears down every listed record, whatever its status
CleanupFunctionAny(fn, faults) ==
    LET td == StopAndRemoveContainer(env, backend, fn.ContainerID, faults)
    IN  [ret |-> td.ret, backend |-> td.be,
         calls |-> <<TeardownCall(fn.ContainerID, td, faults)>>]

\* the body of the loop for one listed record fn
CleanupFunction(fn, faults) ==
    LET td == StopAndRemoveContainer(env, backend, fn.ContainerID, faults)
    IN  IF fn.Status = "running"
        THEN [ret |-> td.ret, backend |-> td.be,
              calls |-> <<TeardownCall(fn.ContainerID, td, faults)>>]
        ELSE [ret |-> "ok", backend |-> backend, calls |-> <<>>]

\* ---------------------------------------------------------------- HTTP handlers
\* what a handler adds to the record of the manager call it made
Answer(l, input, code, body) == [l EXCEPT !.input = input, !.code = code, !.body = body]

\* a request the handler turns down before it calls the manager:
\* http.Error(w, ..., http.StatusBadRequest)
Rejected(op, input) ==
    Answer(Ended(op, <<>>, "bad_request", <<>>, {}), input, 400, Doc("error", {}))

\* what can be wrong with a POST /functions: the form does not parse, python_file
\* is missing, function_name is missing or empty
AddForms == {"ok", "bad_form", "no_file", "no_name"}
\* the function_name of a form
FormValue(form, functionName) == IF form = "no_name" THEN <<>> ELSE functionName

\* variant: the handler does not look at function_name
AddFormErrorLax(form, functionName) == form \in {"bad_form", "no_file"}

\* handleAddFunction: ParseMultipartForm fails, FormFile fails, or functionName == ""
AddFormError(form, functionName) ==
    form \in {"bad_form", "no_file"} \/ FormValue(form, functionName) = <<>>

\* handleAddFunction after h.mgr.AddFunction: 500 on an error (and from the
\* Recoverer on a panic), else 201 with the Function
AddAnswer(l) ==
    IF l.ret = "ok" THEN Answer(l, "ok", 201, Doc("function", l.out))
    ELSE Answer(l, "ok", 500, Doc("error", {}))

\* what can be wrong with the body of a POST /functions/{id}/execute
ExecuteBodies == {"ok", "bad_json"}

\* handleExecuteFunction: json.NewDecoder(r.Body).Decode(&req) fails
BodyError(body) == body = "bad_json"

\* variant: the result is written as it is, not wrapped
ExecuteAnswerBare(l) ==
    IF l.ret = "ok" THEN Answer(l, "ok", 200, Doc("raw", { o.result : o \in l.out }))
    ELSE Answer(l, "ok", 500, Doc("error", {}))

\* handleExecuteFunction after h.mgr.ExecuteFunction: 500 on an error, else 200 with
\* map[string]json.RawMessage{"result": result}; a nil RawMessage is written as null
ExecuteAnswer(l) ==
    IF l.ret = "ok"
    THEN Answer(l, "ok", 200,
                Doc("object", { <<"result", IF o.result = "" THEN "null" ELSE o.result>> :
                                   o \in l.out }))
    ELSE Answer(l, "ok", 500, Doc("error", {}))

\* handleListFunctions: 500 on an error, else 200 with the list
ListAnswer(l) ==
    IF l.ret = "ok" THEN Answer(l, "ok", 200, Doc("list", l.out))
    ELSE Answer(l, "ok", 500, Doc("error", {}))

\* handleRemoveFunction: 500 on an error (and from the Recoverer on a panic), else
\* 204 without a body
RemoveAnswer(l) ==
    IF l.ret = "ok" THEN Answer(l, "ok", 204, Doc("empty", {}))
    ELSE Answer(l, "ok", 500, Doc("error", {}))

\* ---------------------------------------------------------------- the process
Init ==
    /\ env \in {"docker", "kubernetes"}
    /\ phase = "starting"
    /\ db = [i \in {} |-> NewFunction(i, <<>>)]
    /\ files = [d \in CodeDirs |-> "absent"]
    /\ backend = EmptyBackend
    /\ usedIds = {}
    /\ injected = 0
    /\ tornDown = {}
    /\ starts = 1
    /\ batch = NoBatch
    /\ inflight = NoRequests
    /\ last = Ended("none", <<>>, "ok", <<>>, {})

\* main(): a new process on the same database, storage directory and backend
StartProcess ==
    /\ phase = "exited"
    /\ starts < MaxStarts
    /\ starts' = starts + 1
    /\ phase' = "starting"
    /\ batch' = NoBatch
    /\ last' = Ended("none", <<>>, "ok", <<>>, {})
    /\ UNCHANGED <<env, db, files, backend, usedIds, injected, tornDown, inflight>>

\* variant: the query also selects the records whose provisioning failed
RestartableFunctions(table) == { f \in Rows(table) : f.Status \in {"running", "error"} }

\* m.db.Where("status = ?", "running").Find(&runningFunctions)
RunningFunctions(table) == { f \in Rows(table) : f.Status = "running" }

\* RestartRunningFunctions: the query
RestartQuery ==
    /\ phase = "starting"
    /\ \E findFails \in BOOLEAN :
          /\ Affordable(Bit(findFails))
          /\ injected' = injected + Bit(findFails)
          /\ IF findFails
             THEN /\ phase' = "serving"
                  /\ batch' = NoBatch
                  /\ last' = Ended("RestartRunningFunctions", <<>>, "db_error", <<>>, {"find"})
             ELSE LET running == RunningFunctions(db)
                  IN  /\ phase' = "restarting"
                      /\ batch' = [NoBatch EXCEPT !.pending = running, !.sel = running]
                      /\ last' = last
    /\ UNCHANGED <<env, db, files, backend, usedIds, starts, tornDown, inflight>>

\* RestartRunningFunctions: one turn of the loop; a panic ends the process
RestartStep ==
    /\ phase = "restarting"
    /\ \E fn \in batch.pending, rf \in RunFaults(env), p \in Ports, sv \in BOOLEAN :
          /\ Affordable(Bit(rf # "none" \/ sv))
          /\ injected' = injected + Bit(rf # "none" \/ sv)
          /\ \E r \in {RestartFunction(fn, [run |-> rf, port |-> p, save |-> sv])} :
              \E calls \in {Append(batch.calls, r.call)}, per \in {batch.per \cup {r.per}} :
              /\ db' = r.db
              /\ backend' = r.backend
              /\ tornDown' = Tracked(tornDown, <<r.call>>, r.backend, r.db)
              /\ IF r.ret = "panic"
                 THEN /\ phase' = "exited"
                      /\ batch' = NoBatch
                      /\ last' = [Ended("RestartRunningFunctions", <<>>, "panic", calls, {})
                                     EXCEPT !.sel = batch.sel, !.per = per]
                 ELSE /\ phase' = phase
                      /\ batch' = [batch EXCEPT !.pending = @ \ {fn}, !.calls = calls,
                                                !.per = per]
                      /\ last' = last
    /\ UNCHANGED <<env, files, usedIds, starts, inflight>>

\* RestartRunningFunctions: return nil; main() goes on to serve
RestartReturn ==
    /\ phase = "restarting"
    /\ batch.pending = {}
    /\ phase' = "serving"
    /\ batch' = NoBatch
    /\ last' = [Ended("RestartRunningFunctions", <<>>, "ok", batch.calls, {})
                   EXCEPT !.sel = batch.sel, !.per = batch.per]
    /\ UNCHANGED <<env, db, files, backend, usedIds, starts, injected, tornDown, inflight>>

\* variant: the server goroutine is started before RestartRunningFunctions is called
ListeningEarly(p) == p \in {"starting", "restarting", "serving"}

\* a request reaches a handler only between srv.ListenAndServe, which main() starts
\* after RestartRunningFunctions has returned, and the return of srv.Shutdown, which
\* waits for the requests in flight
Listening(p) == p = "serving"

\* POST /functions; a panic is caught by the Recoverer middleware
AddFunction ==
    /\ Listening(phase)
    /\ \E form \in AddForms, functionName \in Names :
          IF AddFormError(form, functionName)
          THEN /\ last' = Rejected("AddFunction", form)
               /\ UNCHANGED <<db, files, backend, usedIds, injected, tornDown>>
          ELSE \E funcID \in FreshIds, x \in AddInputs :
                /\ Affordable(AddCost(x))
                /\ injected' = injected + AddCost(x)
                /\ \E r \in {AddFunctionCall(funcID, FormValue(form, functionName), x)} :
                    /\ db' = r.db
                    /\ files' = r.files
                    /\ backend' = r.backend
                    /\ last' = [AddAnswer(r.last) EXCEPT !.input = form]
                    /\ tornDown' = Tracked(tornDown, r.last.calls, r.backend, r.db)
                    /\ usedIds' = usedIds \cup {funcID}
    /\ UNCHANGED <<env, phase, batch, starts, inflight>>

\* POST /functions/{id}/execute
ExecuteWith(payloads, responses) ==
    /\ Listening(phase)
    /\ \E functionID \in IDs, body \in ExecuteBodies :
          IF BodyError(body)
          THEN /\ last' = Rejected("ExecuteFunction", body)
               /\ injected' = injected
          ELSE \E x \in ExecuteInputs(functionID, payloads, responses) :
                /\ Affordable(Bit(x.load))
                /\ injected' = injected + Bit(x.load)
                /\ \E l \in {ExecuteFunctionCall(functionID, x.payload, x.load, x.resp)} :
                      last' = [ExecuteAnswer(l) EXCEPT !.input = body]
    /\ UNCHANGED <<env, phase, db, files, backend, usedIds, starts, tornDown, batch, inflight>>

\* POST /functions/{id}/execute: one payload, every answer of the worker
ExecuteFunction == ExecuteWith({<<"a">>}, Responses)

\* POST /functions/{id}/execute: every payload, the worker answering with a result
ExecutePayload ==
    ExecuteWith(Payloads, {Reply("nil", 200, Doc("object", {<<"result", "1">>}))})

\* GET /functions
ListFunctions ==
    /\ Listening(phase)
    /\ \E findFails \in BOOLEAN :
          /\ Affordable(Bit(findFails))
          /\ injected' = injected + Bit(findFails)
          /\ last' = ListAnswer(ListFunctionsCall(findFails))
    /\ UNCHANGED <<env, phase, db, files, backend, usedIds, starts, tornDown, batch, inflight>>

\* DELETE /functions/{id}
RemoveFunction ==
    /\ Listening(phase)
    /\ \E functionID \in IDs, x \in RemoveInputs :
          /\ Affordable(RemoveCost(x))
          /\ injected' = injected + RemoveCost(x)
          /\ \E r \in {RemoveFunctionCall(functionID, x)} :
              /\ db' = r.db
              /\ files' = r.files
              /\ backend' = r.backend
              /\ last' = RemoveAnswer(r.last)
              /\ tornDown' = Tracked(tornDown, r.last.calls, r.backend, r.db)
    /\ UNCHANGED <<env, phase, usedIds, batch, starts, inflight>>

\* SIGINT / SIGTERM: the server is shut down before the cleanup starts
Shutdown ==
    /\ phase = "serving"
    /\ phase' = "stopping"
    /\ last' = Ended("Shutdown", <<>>, "ok", <<>>, {})
    /\ UNCHANGED <<env, db, files, backend, usedIds, starts, injected, tornDown, batch, inflight>>

\* CleanupAllFunctions: the listing
CleanupList ==
    /\ phase = "stopping"
    /\ \E findFails \in BOOLEAN :
          /\ Affordable(Bit(findFails))
          /\ injected' = injected + Bit(findFails)
          /\ IF findFails
             THEN /\ phase' = "exited"
                  /\ batch' = NoBatch
                  /\ last' = Ended("CleanupAllFunctions", <<>>, "db_error", <<>>, {"find"})
             ELSE /\ phase' = "cleaning"
                  /\ batch' = [NoBatch EXCEPT !.pending = Rows(db), !.sel = Rows(db)]
                  /\ last' = last
    /\ UNCHANGED <<env, db, files, backend, usedIds, starts, tornDown, inflight>>

\* CleanupAllFunctions: one turn of the loop
CleanupStep ==
    /\ phase = "cleaning"
    /\ \E fn \in batch.pending, td \in TeardownFaults(env) :
          /\ fn.Status # "running" => td = {}
          /\ Affordable(Bit(td # {}))
          /\ injected' = injected + Bit(td # {})
          /\ \E r \in {CleanupFunction(fn, td)} :
              \E calls \in {batch.calls \o r.calls} :
              /\ backend' = r.backend
              /\ tornDown' = Tracked(tornDown, r.calls, r.backend, db)
              /\ IF r.ret = "panic"
                 THEN /\ phase' = "exited"
                      /\ batch' = NoBatch
                      /\ last' = [Ended("CleanupAllFunctions", <<>>, "panic", calls, {})
                                     EXCEPT !.sel = batch.sel]
                 ELSE /\ phase' = phase
                      /\ batch' = [batch EXCEPT !.pending = @ \ {fn}, !.calls = calls]
                      /\ last' = last
    /\ UNCHANGED <<env, db, files, usedIds, starts, inflight>>

\* CleanupAllFunctions: return nil; main() returns
CleanupReturn ==
    /\ phase = "cleaning"
    /\ batch.pending = {}
    /\ phase' = "exited"
    /\ batch' = NoBatch
    /\ last' = [Ended("CleanupAllFunctions", <<>>, "ok", batch.calls, {})
                   EXCEPT !.sel = batch.sel]
    /\ UNCHANGED <<env, db, files, backend, usedIds, starts, injected, tornDown, inflight>>

Next ==
    \/ StartProcess
    \/ RestartQuery
    \/ RestartStep
    \/ RestartReturn
    \/ AddFunction
    \/ ExecuteFunction
    \/ ListFunctions
    \/ RemoveFunction
    \/ Shutdown
    \/ CleanupList
    \/ CleanupStep
    \/ CleanupReturn

Spec == Init /\ [][Next]_vars

\* one process adding functions and executing them with every payload
PayloadNext ==
    \/ RestartQuery
    \/ RestartReturn
    \/ AddFunction
    \/ ExecutePayload
PayloadSpec == Init /\ [][PayloadNext]_vars

\* ---------------------------------------------------------------- concurrent requests
\* net/http runs every request in a goroutine of its own and the manager takes no
\* lock, so the calls a handler makes on the record store, the file system, the
\* backend and the worker interleave with those of the other requests.  Each action
\* below is one such call of the request of caller c (with the computation around
\* it); the environment fails nothing here.
Frame(op, pc, fn, calls) == [op |-> op, pc |-> pc, fn |-> fn, calls |-> calls]

\* the worker of function funcID answers on port: its container runs and publishes
\* the port, or its Deployment exists and its Service has that node port
Answering(e, be, funcID, port) ==
    IF e = "docker"
    THEN \E w \in be.containers :
            w.name = WorkerName(funcID) /\ w.state = "running" /\ w.port = port
    ELSE /\ HasObject(be.objects, "deployment", WorkerName(funcID))
         /\ \E o \in be.objects :
                o.kind = "service" /\ o.name = servicePrefix \o funcID /\ o.nodePort = port

\* AddFunction up to db.Create: the code is stored and the record created
BeginAdd(c) ==
    /\ Listening(phase)
    /\ inflight[c] = Idle
    /\ \E funcID \in FreshIds, functionName \in Names :
         \E fn \in {NewFunction(funcID, functionName)} :
          /\ usedIds' = usedIds \cup {funcID}
          /\ files' = [files EXCEPT ![fn.CodePath] = "file"]
          /\ db' = Put(db, fn)
          /\ inflight' = [inflight EXCEPT ![c] = Frame("AddFunction", "run", fn, <<>>)]
    /\ UNCHANGED <<env, phase, backend, starts, injected, tornDown, batch, last>>

\* AddFunction: m.orchestrator.RunWorker and the assignments that follow it
AddRun(c) ==
    /\ inflight[c].op = "AddFunction"
    /\ inflight[c].pc = "run"
    /\ \E p \in Ports, fn \in {inflight[c].fn} :
         \E run \in {RunWorker(env, backend, files, fn.ID, fn.CodePath, fn.HandlerPath, "none", p)} :
          /\ backend' = run.be
          /\ IF run.ret = "panic"
             THEN /\ inflight' = [inflight EXCEPT ![c] = Idle]
                  /\ last' = Ended("AddFunction", fn.ID, "panic", <<RunCall(fn, run, "none")>>, {})
             ELSE /\ inflight' = [inflight EXCEPT ![c] =
                       Frame("AddFunction", "save",
                             IF run.ret = "error" THEN AsError(fn)
                             ELSE [fn EXCEPT !.ContainerID = run.handle,
                                             !.HostPort = run.port,
                                             !.Status = "running"],
                             <<RunCall(fn, run, "none")>>)]
                  /\ last' = last
    /\ UNCHANGED <<env, phase, db, files, usedIds, starts, injected, tornDown, batch>>

\* AddFunction: m.db.Save(fn) and the return
AddSave(c) ==
    /\ inflight[c].op = "AddFunction"
    /\ inflight[c].pc = "save"
    /\ \E fn \in {inflight[c].fn} :
          /\ db' = Put(db, fn)
          /\ last' = IF fn.Status = "error"
                     THEN Ended("AddFunction", fn.ID, "provision_error", inflight[c].calls, {})
                     ELSE [Ended("AddFunction", fn.ID, "ok", inflight[c].calls, {})
                              EXCEPT !.out = {fn}]
          /\ tornDown' = Tracked(tornDown, inflight[c].calls, backend, Put(db, fn))
    /\ inflight' = [inflight EXCEPT ![c] = Idle]
    /\ UNCHANGED <<env, phase, files, backend, usedIds, starts, injected, batch>>

\* RemoveFunction: m.db.First
BeginRemove(c) ==
    /\ Listening(phase)
    /\ inflight[c] = Idle
    /\ \E functionID \in IDs :
          IF functionID \notin DOMAIN db
          THEN /\ last' = RemoveUnfound(functionID, FALSE).last
               /\ inflight' = inflight
          ELSE /\ last' = last
               /\ inflight' = [inflight EXCEPT ![c] =
                      Frame("RemoveFunction", "teardown", db[functionID], <<>>)]
    /\ UNCHANGED <<env, phase, db, files, backend, usedIds, starts, injected, tornDown, batch>>

\* RemoveFunction: m.orchestrator.StopAndRemoveContainer(ctx, fn.ContainerID)
RemoveTeardown(c) ==
    /\ inflight[c].op = "RemoveFunction"
    /\ inflight[c].pc = "teardown"
    /\ \E fn \in {inflight[c].fn} :
         \E td \in {StopAndRemoveContainer(env, backend, fn.ContainerID, {})} :
         \E tdCall \in {TeardownCall(fn.ContainerID, td, {})} :
          /\ backend' = td.be
          /\ tornDown' = Tracked(tornDown, <<tdCall>>, td.be, db)
          /\ IF td.ret = "panic"
             THEN /\ inflight' = [inflight EXCEPT ![c] = Idle]
                  /\ last' = Ended("RemoveFunction", fn.ID, "panic", <<tdCall>>, {})
             ELSE /\ inflight' = [inflight EXCEPT ![c] =
                         Frame("RemoveFunction", "code", fn, <<tdCall>>)]
                  /\ last' = last
    /\ UNCHANGED <<env, phase, db, files, usedIds, starts, injected, batch>>

\* RemoveFunction: os.RemoveAll(fn.CodePath)
RemoveCode(c) ==
    /\ inflight[c].op = "RemoveFunction"
    /\ inflight[c].pc = "code"
    /\ files' = [files EXCEPT ![inflight[c].fn.CodePath] = "absent"]
    /\ inflight' = [inflight EXCEPT ![c].pc = "delete"]
    /\ UNCHANGED <<env, phase, db, backend, usedIds, starts, injected, tornDown, batch, last>>

\* RemoveFunction: m.db.Delete(&fn) and the return
RemoveDelete(c) ==
    /\ inflight[c].op = "RemoveFunction"
    /\ inflight[c].pc = "delete"
    /\ db' = Drop(db, inflight[c].fn.ID)
    /\ tornDown' = Tracked(tornDown, <<>>, backend, Drop(db, inflight[c].fn.ID))
    /\ last' = Ended("RemoveFunction", inflight[c].fn.ID, "ok", inflight[c].calls, {})
    /\ inflight' = [inflight EXCEPT ![c] = Idle]
    /\ UNCHANGED <<env, phase, files, backend, usedIds, starts, injected, batch>>

\* ExecuteFunction: m.db.First and the check of status and port
BeginExecute(c) ==
    /\ Listening(phase)
    /\ inflight[c] = Idle
    /\ \E functionID \in IDs :
          IF functionID \notin DOMAIN db \/ ~Runnable(db[functionID])
          THEN /\ last' = ExecuteFunctionCall(functionID, <<"a">>, FALSE,
                                              Reply("do", 0, Doc("malformed", {})))
               /\ inflight' = inflight
          ELSE /\ last' = last
               /\ inflight' = [inflight EXCEPT ![c] =
                      Frame("ExecuteFunction", "send", db[functionID], <<>>)]
    /\ UNCHANGED <<env, phase, db, files, backend, usedIds, starts, injected, tornDown, batch>>

\* ExecuteFunction: http.DefaultClient.Do and the rest.  A worker that answers
\* returns a result; where none answers on the port the request fails.
ExecuteSend(c) ==
    /\ inflight[c].op = "ExecuteFunction"
    /\ inflight[c].pc = "send"
    /\ \E fn \in {inflight[c].fn} :
          last' = Forward(fn, <<"a">>,
                          IF Answering(env, backend, fn.ID, fn.HostPort)
                          THEN Reply("nil", 200, Doc("object", {<<"result", "1">>}))
                          ELSE Reply("do", 0, Doc("malformed", {})))
    /\ inflight' = [inflight EXCEPT ![c] = Idle]
    /\ UNCHANGED <<env, phase, db, files, backend, usedIds, starts, injected, tornDown, batch>>

ConcurrentNext ==
    \/ RestartQuery
    \/ RestartReturn
    \/ \E c \in Callers : BeginAdd(c)
    \/ \E c \in Callers : AddRun(c)
    \/ \E c \in Callers : AddSave(c)
    \/ \E c \in Callers : BeginRemove(c)
    \/ \E c \in Callers : RemoveTeardown(c)
    \/ \E c \in Callers : RemoveCode(c)
    \/ \E c \in Callers : RemoveDelete(c)
    \/ \E c \in Callers : BeginExecute(c)
    \/ \E c \in Callers : ExecuteSend(c)
ConcurrentSpec == Init /\ [][ConcurrentNext]_vars

\* ================================================================ properties
\* the workers of a function that are live on the backend: its running container,
\* or its deployment
LiveWorkers(e, be, funcID) ==
    IF e = "docker"
    THEN { c \in be.containers : c.name = WorkerName(funcID) /\ c.state = "running" }
    ELSE { o \in be.objects : o.kind = "deployment" /\ o.name = WorkerName(funcID) }

\* the teardown failures that StopAndRemoveContainer returns
ReturnedFaults == {"container", "deployment", "service", "configmap"}

\* ---------------------------------------------------------------- C1
\* C1, as stated: when an AddFunction call that created a record has returned, the
\* stored status of that record is running or error, never creating.
C1_NeverCreatingAfterAdd ==
    (last.op = "AddFunction" /\ last.ret # "panic" /\ last.id \in DOMAIN db)
        => db[last.id].Status \in {"running", "error"}

\* C1, amended: when an AddFunction call that created a record has returned, the
\* stored status is running (the call succeeded) or error (provisioning failed)
\* provided the db.Save of the provisioning outcome succeeded; when that Save fails,
\* on either path, the call returns an error and the record is left at creating.
\* (A call in which the adapter panics does not return; its record stays at creating.)
C1_StatusAfterAdd ==
    (last.op = "AddFunction" /\ last.id \in DOMAIN db) =>
        /\ (last.ret # "panic" /\ "save" \notin last.faulty) =>
               db[last.id].Status \in {"running", "error"}
        /\ "save" \in last.faulty => /\ db[last.id].Status = "creating"
                                     /\ last.ret \in {"provision_error", "db_save_error"}
        /\ last.ret = "panic" => db[last.id].Status = "creating"
        /\ db[last.id].Status = "running" <=> last.ret = "ok"
        /\ db[last.id].Status = "error" =>
               last.ret = "provision_error" /\ last.calls[1].ret = "error"

C1_Witness ==
    /\ last.op = "AddFunction"
    /\ last.ret = "provision_error"
    /\ "save" \notin last.faulty
    /\ last.id \in DOMAIN db
    /\ db[last.id].Status = "error"

\* ---------------------------------------------------------------- C2
\* C2, as stated (its first half): when provisioning fails, AddFunction returns the
\* provisioning error and the record remains with status error and endpoint unset.
C2_ErrorAfterFailedProvisioning ==
    (last.op = "AddFunction" /\ last.ret = "provision_error") =>
        /\ last.id \in DOMAIN db
        /\ db[last.id].Status = "error"
        /\ db[last.id].HostPort = 0

\* C2, amended: when RunWorker fails, AddFunction returns the provisioning error and
\* the record remains, with no handle and no endpoint, at status error if the
\* db.Save of that status succeeded and at creating if it did not; such a record
\* never changes afterwards, and every ExecuteFunction that loads it fails with
\* not-running and sends nothing.
C2_FailedProvisioning ==
    /\ []((last.op = "AddFunction" /\ last.calls # <<>> /\ last.calls[1].ret = "error") =>
            /\ last.ret = "provision_error"
            /\ last.out = {}
            /\ last.id \in DOMAIN db
            /\ db[last.id].HostPort = 0
            /\ db[last.id].ContainerID = <<>>
            /\ db[last.id].Status = IF "save" \in last.faulty THEN "creating" ELSE "error")
    /\ []((/\ last.op = "ExecuteFunction"
           /\ last.id \in DOMAIN db
           /\ db[last.id].Status \in {"error", "creating"}
           /\ "load" \notin last.faulty) =>
            last.ret = "not_running" /\ last.sent = <<>>)
    /\ [][\A i \in DOMAIN db \cap DOMAIN db' :
             db[i].Status \in {"error", "creating"} => db'[i] = db[i]]_vars

C2_Witness ==
    /\ last.op = "ExecuteFunction"
    /\ last.ret = "not_running"
    /\ last.id \in DOMAIN db
    /\ db[last.id].Status = "error"
    /\ db[last.id].HostPort = 0

\* ---------------------------------------------------------------- C3
\* C3, as stated: after RestartRunningFunctions over the records selected as
\* running (every db.Save succeeding), each selected record whose RunWorker
\* succeeded is running with the handle and endpoint RunWorker returned, and each
\* selected record whose RunWorker failed is stopped, whatever happened to the others.
C3_RestartOutcomePerRecord ==
    (/\ last.op = "RestartRunningFunctions"
     /\ "find" \notin last.faulty
     /\ \A r \in last.per : r.prov = "panic" \/ r.saved) =>
        \A f \in last.sel :
            \E r \in last.per :
                /\ r.id = f.ID
                /\ r.prov \in {"ok", "error"}
                /\ f.ID \in DOMAIN db
                /\ db[f.ID] = IF r.prov = "ok"
                              THEN [f EXCEPT !.ContainerID = r.handle, !.HostPort = r.port]
                              ELSE [f EXCEPT !.Status = "stopped"]

\* ---------------------------------------------------------------- C4
\* C4, as stated: RestartRunningFunctions and CleanupAllFunctions never fail because
\* of a per-record RunWorker or StopAndRemoveContainer failure: once the query or
\* listing has succeeded they run to the end and return nil.
C4_ReconciliationCompletes ==
    (last.op \in {"RestartRunningFunctions", "CleanupAllFunctions"}
        /\ "find" \notin last.faulty) =>
            last.ret = "ok"

\* ---------------------------------------------------------------- C5
\* C5, as stated: a RemoveFunction that finds the record deletes it, whatever the
\* teardown and the removal of the code do, and reports an error only when the
\* record is not found or the db.Delete fails.
C5_RemoveDeletesRecord ==
    (last.op = "RemoveFunction" /\ last.ret # "not_found") =>
        \/ last.ret = "ok" /\ last.id \notin DOMAIN db
        \/ last.ret = "db_delete_error" /\ "delete" \in last.faulty

\* ---------------------------------------------------------------- C6
\* C6: a StopAndRemoveContainer call with a handle whose resources an earlier call
\* has already removed leaves the backend without any resource for that handle, and
\* reports success (unless a backend call of this very call fails with an error
\* other than not-found).
C6_TeardownIdempotent ==
    \A k \in DOMAIN last.calls :
        (last.calls[k].fn = "StopAndRemoveContainer" /\ last.calls[k].again) =>
            /\ ResourcesOf(env, backend, last.calls[k].arg) = {}
            /\ last.calls[k].ret \in {"ok", "error"}
            /\ last.calls[k].ret = "error" => last.calls[k].faults \cap ReturnedFaults # {}

C6_Witness ==
    \E k \in DOMAIN last.calls :
        /\ last.calls[k].fn = "StopAndRemoveContainer"
        /\ last.calls[k].again
        /\ last.calls[k].arg # <<>>
        /\ last.calls[k].faults = {}
        /\ last.calls[k].ret = "ok"

\* ---------------------------------------------------------------- C7
\* C7, as stated: StopAndRemoveContainer with an empty handle succeeds and makes no
\* backend call.
C7_EmptyHandleNoOp ==
    \A k \in DOMAIN last.calls :
        (last.calls[k].fn = "StopAndRemoveContainer" /\ last.calls[k].arg = <<>>) =>
            last.calls[k].ret = "ok" /\ last.calls[k].api = <<>>

\* ---------------------------------------------------------------- C8
\* C8: an ExecuteFunction for a record whose status is not running, or whose
\* endpoint is unset, sends no request to any worker and changes neither the
\* records, nor the stored code, nor the backend; it fails with not-running (with
\* not-found when the db.First that loads the record fails).
C8_ExecuteNotRunning ==
    [][(/\ phase = "serving" /\ phase' = "serving"
        /\ last'.op = "ExecuteFunction"
        /\ last'.id \in DOMAIN db
        /\ (db[last'.id].Status # "running" \/ db[last'.id].HostPort = 0)) =>
            /\ last'.sent = <<>>
            /\ last'.ret = IF "load" \in last'.faulty THEN "not_found" ELSE "not_running"
            /\ UNCHANGED <<db, files, backend>>]_vars

C8_Witness ==
    /\ last.op = "ExecuteFunction"
    /\ last.ret = "not_running"
    /\ last.sent = <<>>
    /\ last.id \in DOMAIN db
    /\ db[last.id].Status = "stopped"
    /\ db[last.id].HostPort # 0

\* ---------------------------------------------------------------- C9
\* C9: when RunWorker succeeds and the db.Save of the running state fails,
\* AddFunction calls StopAndRemoveContainer with the handle RunWorker returned and
\* returns the storage error; if that teardown reports success no worker of the
\* function is live on the backend (and if none of its backend calls failed, nothing
\* at all is left under the handle).
C9_RollbackOnSaveFailure ==
    (/\ last.op = "AddFunction"
     /\ last.calls # <<>>
     /\ last.calls[1].ret = "ok"
     /\ "save" \in last.faulty) =>
        /\ Len(last.calls) = 2
        /\ last.calls[1].fn = "RunWorker"
        /\ last.calls[2].fn = "StopAndRemoveContainer"
        /\ last.calls[2].arg = last.calls[1].handle
        /\ last.calls[2].arg # <<>>
        /\ last.ret = "db_save_error"
        /\ last.out = {}
        /\ last.calls[2].ret = "ok" => LiveWorkers(env, backend, last.id) = {}
        /\ last.calls[2].faults = {} =>
               /\ last.calls[2].ret = "ok"
               /\ ResourcesOf(env, backend, last.calls[1].handle) = {}

C9_Witness ==
    /\ last.op = "AddFunction"
    /\ last.ret = "db_save_error"
    /\ Len(last.calls) = 2
    /\ last.calls[1].ret = "ok"
    /\ last.calls[2].ret = "ok"
    /\ last.calls[2].api # <<>>
    /\ LiveWorkers(env, backend, last.id) = {}

\* ---------------------------------------------------------------- C10
\* C10: a CleanupAllFunctions whose listing succeeds calls StopAndRemoveContainer
\* exactly once for each listed record whose status is running, with that record's
\* handle, and for no other record; it goes on after a teardown that fails, returns
\* nil, and leaves every record as it was.  (When the listing fails it returns that
\* error and makes no call.)
C10_CleanupTeardowns ==
    last.op = "CleanupAllFunctions" =>
        /\ last.ret = IF "find" \in last.faulty THEN "db_error" ELSE "ok"
        /\ last.ret = "db_error" => last.calls = <<>>
        /\ last.ret = "ok" =>
            /\ \A k \in DOMAIN last.calls : last.calls[k].fn = "StopAndRemoveContainer"
            /\ Len(last.calls) = Cardinality({ f \in last.sel : f.Status = "running" })
            /\ \A f \in last.sel :
                   f.Status = "running" =>
                       \E k \in DOMAIN last.calls : last.calls[k].arg = f.ContainerID
            /\ Rows(db) = last.sel

C10_Witness ==
    /\ last.op = "CleanupAllFunctions"
    /\ last.ret = "ok"
    /\ Len(last.calls) = 2
    /\ last.calls[1].ret = "error"
    /\ last.calls[2].ret = "ok"
    /\ last.calls[1].arg # last.calls[2].arg

\* ---------------------------------------------------------------- C11
\* C11: a RemoveFunction for an id that has no record fails with not-found, calls
\* no teardown, removes no code directory and changes neither the records nor the
\* backend.
C11_RemoveAbsent ==
    [][(/\ phase = "serving" /\ phase' = "serving"
        /\ last'.op = "RemoveFunction"
        /\ last'.id \notin DOMAIN db) =>
            /\ last'.ret = "not_found"
            /\ last'.calls = <<>>
            /\ UNCHANGED <<db, files, backend>>]_vars

C11_Witness ==
    /\ last.op = "RemoveFunction"
    /\ last.ret = "not_found"
    /\ last.faulty = {}
    /\ last.calls = <<>>
    /\ last.id \notin DOMAIN db
    /\ files[CodeDir(last.id)] # "absent"

\* ---------------------------------------------------------------- C12
\* C12: once the status of a record is error or stopped, no step changes the record
\* or provisions anything for its function; the only thing that happens to it is
\* its deletion by a successful RemoveFunction for its id.
C12_ErrorAndStoppedAreFinal ==
    [][\A i \in DOMAIN db :
          db[i].Status \in {"error", "stopped"} =>
              /\ i \in DOMAIN db' => db'[i] = db[i]
              /\ i \notin DOMAIN db' =>
                     last'.op = "RemoveFunction" /\ last'.id = i /\ last'.ret = "ok"
              /\ ResourcesOf(env, backend', WorkerName(i))
                     \subseteq ResourcesOf(env, backend, WorkerName(i))]_vars

C12_Witness ==
    /\ last.op = "RestartRunningFunctions"
    /\ last.ret = "ok"
    /\ last.sel # {}
    /\ \E i \in DOMAIN db :
           /\ db[i].Status = "error"
           /\ \A f \in last.sel : f.ID # i
           /\ \A k \in DOMAIN last.calls : last.calls[k].arg[1] # i

\* ---------------------------------------------------------------- C13
\* C13: when RemoveFunction(id) has returned success the store holds no record for
\* id, and it never holds one again; a ListFunctions result is exactly the records
\* stored, so it omits id, and an ExecuteFunction or RemoveFunction call for an id
\* without a record (the request was well-formed, so the manager is called) fails
\* with not-found.
C13_HardDelete ==
    /\ []((last.op = "RemoveFunction" /\ last.ret = "ok") =>
             (last.id \in usedIds /\ last.id \notin DOMAIN db))
    /\ []((last.op = "ListFunctions" /\ last.ret = "ok") => last.out = Rows(db))
    /\ [][/\ \A i \in usedIds : i \notin DOMAIN db => i \notin DOMAIN db'
          /\ (/\ phase = "serving" /\ phase' = "serving"
              /\ last'.op \in {"ExecuteFunction", "RemoveFunction"}
              /\ last'.input = "ok"
              /\ last'.id \notin DOMAIN db) =>
                 (last'.ret = "not_found" /\ last'.sent = <<>> /\ last'.calls = <<>>)]_vars

C13_Witness ==
    /\ last.op = "ExecuteFunction"
    /\ last.ret = "not_found"
    /\ last.id \in usedIds
    /\ last.id \notin DOMAIN db
    /\ injected = 0

\* ---------------------------------------------------------------- C14
\* C14: when AddFunction succeeds, the Function it returns is the record it stored;
\* it has the id generated for the call, status running, and the handle and the
\* non-zero endpoint that the one RunWorker call returned, which is the port the
\* backend bound for the worker.
C14_AddedFunction ==
    (last.op = "AddFunction" /\ last.ret = "ok") =>
        /\ last.id \in DOMAIN db
        /\ last.out = {db[last.id]}
        /\ db[last.id].ID = last.id
        /\ last.id # <<>>
        /\ db[last.id].Status = "running"
        /\ Len(last.calls) = 1
        /\ last.calls[1].fn = "RunWorker"
        /\ last.calls[1].ret = "ok"
        /\ db[last.id].ContainerID = last.calls[1].handle
        /\ db[last.id].ContainerID # <<>>
        /\ db[last.id].HostPort = last.calls[1].port
        /\ db[last.id].HostPort # 0
        /\ IF env = "docker"
           THEN \E c \in backend.containers :
                    /\ c.id = db[last.id].ContainerID
                    /\ c.state = "running"
                    /\ c.port = db[last.id].HostPort
           ELSE \E o \in backend.objects :
                    /\ o.kind = "service"
                    /\ o.name = servicePrefix \o last.id
                    /\ o.nodePort = db[last.id].HostPort

C14_Witness ==
    /\ last.op = "AddFunction"
    /\ last.ret = "ok"
    /\ \E f \in last.out : /\ f.Status = "running"
                            /\ f.HostPort > 9
                            /\ f.ContainerID # <<>>
                            /\ db[f.ID] = f

\* ---------------------------------------------------------------- C15
\* C15: in every reachable state, the code directory of every stored record exists;
\* no operation, a RemoveFunction whose db.Delete fails included, leaves a record
\* whose code has been deleted.
C15_CodeOutlivesRecord ==
    \A i \in DOMAIN db : files[db[i].CodePath] # "absent"

\* ---------------------------------------------------------------- C16
\* C16: on both backends every RunWorker call, one made for a function whose
\* resources of an earlier attempt or an earlier process still exist included, ends
\* with a handle and a non-zero port or with an error, never with a panic, when no
\* backend call of it fails.
C16_RunWorkerAgain ==
    \A k \in DOMAIN last.calls :
        (last.calls[k].fn = "RunWorker" /\ last.calls[k].faults = {}) =>
            \/ last.calls[k].ret = "error"
            \/ /\ last.calls[k].ret = "ok"
               /\ last.calls[k].handle # <<>>
               /\ last.calls[k].port # 0

\* ---------------------------------------------------------------- C17
\* the Delete calls a complete kubernetes teardown of containerID issues, in order
K8sDeletions(containerID) ==
    LET funcID == SliceFrom(containerID, Len(appName) + 1)
    IN  << <<"Delete", "hpa", hpaPrefix \o funcID>>,
           <<"Delete", "deployment", containerID, "Foreground">>,
           <<"Delete", "service", servicePrefix \o funcID>>,
           <<"Delete", "configmap", configMapPrefix \o funcID>> >>

\* the teardown calls of the operation that ended last and of the running loop
TeardownCalls ==
    { last.calls[k] : k \in DOMAIN last.calls } \cup { batch.calls[k] : k \in DOMAIN batch.calls }

\* C17: a kubernetes teardown issues its deletions in the order HPA, Deployment (with
\* foreground propagation), Service, ConfigMap: the deletions of every teardown that
\* does not panic are the first ones of that sequence, each issued once.
C17_TeardownOrder ==
    env = "kubernetes" =>
        \A c \in TeardownCalls :
            (c.fn = "StopAndRemoveContainer" /\ c.ret # "panic") =>
                /\ Len(c.api) \in 1..4
                /\ c.api = SubSeq(K8sDeletions(c.arg), 1, Len(c.api))

C17_Witness ==
    /\ env = "kubernetes"
    /\ last.op = "RemoveFunction"
    /\ last.ret = "ok"
    /\ Len(last.calls) = 1
    /\ last.calls[1].ret = "ok"
    /\ ~last.calls[1].again
    /\ last.calls[1].api = K8sDeletions(last.calls[1].arg)
    /\ backend.objects = {}

\* ---------------------------------------------------------------- C18
\* C18: a kubernetes teardown goes on past a failed deletion of every resource but
\* the Deployment: when the Deployment's Delete does not fail, all four deletions
\* are issued and nil is returned, whichever of the other Deletes fail; when the
\* Deployment's Delete fails, the error is returned.
C18_OnlyDeploymentFailureReturned ==
    env = "kubernetes" =>
        \A c \in TeardownCalls :
            (c.fn = "StopAndRemoveContainer" /\ c.ret # "panic") =>
                IF "deployment" \in c.faults
                THEN c.ret = "error"
                ELSE c.ret = "ok" /\ Len(c.api) = 4

\* ---------------------------------------------------------------- C19
\* Decoding of a JSON text (RFC 8259), as the receiver of the request body does it.
\* A string: the characters up to the closing quote; a backslash is followed by one
\* of " \ / b f n r t or by u and four hexadecimal digits; a control character may
\* not appear unescaped.  [ok, val, next]: next is the index after the closing quote.
HexValue(str) ==
    LET D(c) == CHOOSE d \in 1..16 : HexDigits[d] = c
    IN  4096 * (D(str[1]) - 1) + 256 * (D(str[2]) - 1) + 16 * (D(str[3]) - 1) + (D(str[4]) - 1)
IsHex(c) == \E d \in 1..16 : HexDigits[d] = c
CharOf(code) ==
    IF \E c \in PayloadChars : CodePoint[c] = code
    THEN CHOOSE c \in PayloadChars : CodePoint[c] = code
    ELSE "other"
JSONBad == [ok |-> FALSE, val |-> <<>>, next |-> 0]
RECURSIVE JSONString(_, _, _)
JSONString(str, i, acc) ==
    IF i > Len(str) THEN JSONBad
    ELSE IF str[i] = "\"" THEN [ok |-> TRUE, val |-> acc, next |-> i + 1]
    ELSE IF str[i] \in {"LF", "BEL", "SOH"} THEN JSONBad
    ELSE IF str[i] # "\\" THEN JSONString(str, i + 1, Append(acc, str[i]))
    ELSE IF i + 1 > Len(str) THEN JSONBad
    ELSE IF str[i + 1] \in {"\"", "\\", "/"}
    THEN JSONString(str, i + 2, Append(acc, str[i + 1]))
    ELSE IF str[i + 1] = "n" THEN JSONString(str, i + 2, Append(acc, "LF"))
    ELSE IF str[i + 1] \in {"b", "f", "r", "t"}
    THEN JSONString(str, i + 2, Append(acc, "other"))
    ELSE IF /\ str[i + 1] = "u"
            /\ i + 5 <= Len(str)
            /\ \A k \in (i + 2)..(i + 5) : IsHex(str[k])
    THEN JSONString(str, i + 6, Append(acc, CharOf(HexValue(SubSeq(str, i + 2, i + 5)))))
    ELSE JSONBad

\* the payload member of a body that is an object with that one member
JSONPayload(body) ==
    LET key == IF Len(body) >= 2 /\ body[1] = "{" /\ body[2] = "\""
               THEN JSONString(body, 3, <<>>) ELSE JSONBad
        colon == key.next
        start == IF key.ok /\ colon + 1 <= Len(body) /\ body[colon + 1] = " "
                 THEN colon + 2 ELSE colon + 1
        value == IF /\ key.ok
                    /\ key.val = <<"p", "a", "y", "l", "o", "a", "d">>
                    /\ start <= Len(body)
                    /\ body[colon] = ":"
                    /\ body[start] = "\""
                 THEN JSONString(body, start + 1, <<>>) ELSE JSONBad
    IN  IF value.ok /\ value.next = Len(body) /\ body[Len(body)] = "}"
        THEN [ok |-> TRUE, val |-> value.val]
        ELSE [ok |-> FALSE, val |-> <<>>]

\* C19: for every payload passed to ExecuteFunction for a running function, the body
\* of the request sent to the worker is a JSON object whose payload member decodes
\* to the same string, character for character.
C19_PayloadRoundTrip ==
    (last.op = "ExecuteFunction" /\ last.sent # <<>>) =>
        JSONPayload(last.sent[1].body) = [ok |-> TRUE, val |-> last.sent[1].payload]

\* ---------------------------------------------------------------- C20
\* C20: an ExecuteFunction that sends its request succeeds exactly when the worker
\* answers with status 200 and a body that is an object with a result member, and
\* then returns the raw text of that member; on a failed request or read and on a
\* malformed body it fails with an execution error, and on any other status with
\* one that carries the status and the body.
C20_ExecuteOutcome ==
    (last.op = "ExecuteFunction" /\ last.sent # <<>>) =>
        \A o \in last.out :
            LET framed == /\ o.reply.err = "nil"
                          /\ o.reply.status = 200
                          /\ o.reply.body.kind = "object"
                          /\ \E m \in o.reply.body.members : m[1] = "result"
            IN  /\ last.ret \in {"ok", "execution_error"}
                /\ last.ret = "ok" <=> framed
                /\ framed => <<"result", o.result>> \in o.reply.body.members
                /\ (o.reply.err = "nil" /\ o.reply.status # 200) =>
                       o.detail = <<o.reply.status, o.reply.body>>

\* ---------------------------------------------------------------- C21
\* C21: under concurrent callers, every request ExecuteFunction sends goes to a
\* port on which the worker of that function answers: no teardown of the function
\* comes between the check of status and port and the request.
C21_NoRequestToTornDownWorker ==
    (last.op = "ExecuteFunction" /\ last.sent # <<>>) =>
        Answering(env, backend, last.id, last.sent[1].port)

\* ---------------------------------------------------------------- C22
\* C22: under concurrent callers, no step writes back the record of an id that was
\* handed out and is no longer in the table: a record that a RemoveFunction has
\* deleted is not stored again by an AddFunction still running for that id.
C22_NoWriteBack ==
    [][\A i \in usedIds : i \notin DOMAIN db => i \notin DOMAIN db']_vars

\* ---------------------------------------------------------------- C23
\* C23: the response to a well-formed request: Add answers 201 with the Function on
\* success and 500 on any error of the manager; List 200 with the records or 500;
\* Execute 200 with the result under the member result, or 500 when the function is
\* not found or not running or the execution failed; Remove 204 on success and 500
\* when the function is not found or the deletion failed.
C23_ResponseCodes ==
    last.input = "ok" =>
        CASE last.op = "AddFunction" ->
                IF last.ret = "ok"
                THEN last.code = 201 /\ last.body = Doc("function", {db[last.id]})
                ELSE last.code = 500 /\ last.body.kind = "error"
          [] last.op = "ListFunctions" ->
                IF last.ret = "ok"
                THEN last.code = 200 /\ last.body = Doc("list", Rows(db))
                ELSE last.ret = "db_error" /\ last.code = 500
          [] last.op = "ExecuteFunction" ->
                IF last.ret = "ok"
                THEN /\ last.code = 200
                     /\ last.body.kind = "object"
                     /\ \E o \in last.out :
                            last.body.members =
                                {<<"result", IF o.result = "" THEN "null" ELSE o.result>>}
                ELSE /\ last.ret \in {"not_found", "not_running", "execution_error"}
                     /\ last.code = 500
          [] last.op = "RemoveFunction" ->
                IF last.ret = "ok"
                THEN last.code = 204 /\ last.body.kind = "empty"
                ELSE /\ last.ret \in {"not_found", "db_delete_error", "panic"}
                     /\ last.code = 500
          [] OTHER -> FALSE

C23_Witness ==
    /\ last.op = "ExecuteFunction"
    /\ last.input = "ok"
    /\ last.ret = "ok"
    /\ last.code = 200
    /\ last.body = Doc("object", {<<"result", "\"x\"">>})

C25_ListReturnsAll ==
    [][(/\ phase = "serving" /\ phase' = "serving"
        /\ last'.op = "ListFunctions") =>
            /\ last'.ret = "ok" => last'.out = Rows(db)
            /\ last'.ret # "ok" => last'.out = {}
            /\ last'.calls = <<>>
            /\ UNCHANGED <<db, files, backend>>]_vars

C25_Witness ==
    /\ last.op = "ListFunctions"
    /\ last.ret = "ok"
    /\ last.out = Rows(db)
    /\ \E f, g \in last.out : f.Status = "running" /\ g.Status \in {"creating", "error"}

\* ---------------------------------------------------------------- C26
\* C26: a RestartRunningFunctions whose query succeeded has called RunWorker exactly
\* once for each record the query selected, each of them running at the time, with
\* the id, code path and handler path stored in the record, and has made no other
\* call.
C26_EachRunningProvisionedOnce ==
    (last.op = "RestartRunningFunctions" /\ "find" \notin last.faulty) =>
        /\ \A f \in last.sel :
              /\ f.Status = "running"
              /\ Cardinality({ k \in DOMAIN last.calls :
                                  /\ last.calls[k].fn = "RunWorker"
                                  /\ last.calls[k].arg = <<f.ID, f.CodePath, f.HandlerPath>> }) = 1
        /\ Len(last.calls) = Cardinality(last.sel)

\* ---------------------------------------------------------------- C27
\* C27: every record is stored under its own id, so no two records share one, and
\* has the name, handler path and code path that AddFunction derived for it; no
\* step changes the id, name, handler path, code path or creation time of a record
\* that stays in the table.
C27_CreationFieldsFixed ==
    /\ [](\A i \in DOMAIN db :
            /\ db[i].ID = i
            /\ db[i].FunctionName \in Names
            /\ db[i].HandlerPath = handlerPrefix \o db[i].FunctionName
            /\ db[i].CodePath = CodeDir(i)
            /\ db[i].CreatedAt \in 1..NumIds)
    /\ [][\A i \in DOMAIN db \cap DOMAIN db' :
            /\ db'[i].ID = db[i].ID
            /\ db'[i].FunctionName = db[i].FunctionName
            /\ db'[i].HandlerPath = db[i].HandlerPath
            /\ db'[i].CodePath = db[i].CodePath
            /\ db'[i].CreatedAt = db[i].CreatedAt]_vars

C27_Witness ==
    /\ last.op = "RestartRunningFunctions"
    /\ \E r, q \in last.per :
          /\ r.prov = "ok" /\ r.saved
          /\ q.prov = "error" /\ q.saved
          /\ db[r.id].Status = "running"
          /\ db[q.id].Status = "stopped"
          /\ db[r.id].CreatedAt # db[q.id].CreatedAt

\* ---------------------------------------------------------------- C28
\* C28: a record in status creating or error has an empty handle and port 0, and a
\* step gives a record a handle or a port only with a RunWorker call for its
\* function that succeeded and returned that handle and that port.
C28_HandleOnlyFromProvisioning ==
    /\ [](\A i \in DOMAIN db :
            db[i].Status \in {"creating", "error"} =>
                db[i].ContainerID = <<>> /\ db[i].HostPort = 0)
    /\ [][\A i \in DOMAIN db' :
            (/\ db'[i].ContainerID # <<>> \/ db'[i].HostPort # 0
             /\ \/ i \notin DOMAIN db
                \/ db[i].ContainerID # db'[i].ContainerID
                \/ db[i].HostPort # db'[i].HostPort) =>
                \E c \in { last'.calls[k] : k \in DOMAIN last'.calls }
                            \cup { batch'.calls[k] : k \in DOMAIN batch'.calls } :
                    /\ c.fn = "RunWorker"
                    /\ c.arg[1] = i
                    /\ c.ret = "ok"
                    /\ c.handle = db'[i].ContainerID
                    /\ c.port = db'[i].HostPort]_vars

C28_Witness ==
    /\ last.op = "AddFunction"
    /\ last.ret = "db_save_error"
    /\ last.calls[1].fn = "RunWorker"
    /\ last.calls[1].ret = "ok"
    /\ last.id \in DOMAIN db
    /\ db[last.id].Status = "creating"
    /\ db[last.id].ContainerID = <<>>
    /\ db[last.id].HostPort = 0

\* ---------------------------------------------------------------- C29
\* C29: AddFunction stores the code, then creates the record with status creating,
\* then calls RunWorker, then stores the outcome.  When storing the code or creating
\* the record fails it returns that error, having called nothing on the backend and
\* stored no record (after a failed db.Create the code is already there); RunWorker
\* is its first call, made for an id whose record is stored and whose code is
\* written, and a RunWorker that panics leaves that record as it was created.
C29_AddOrder ==
    [][(/\ phase = "serving" /\ phase' = "serving"
        /\ last'.op = "AddFunction" /\ last'.input = "ok") =>
            /\ last'.ret \in {"storage_error", "db_create_error"} =>
                   /\ last'.calls = <<>>
                   /\ UNCHANGED <<db, backend>>
            /\ last'.ret = "db_create_error" => files'[CodeDir(last'.id)] = "file"
            /\ \A k \in DOMAIN last'.calls :
                   last'.calls[k].fn = "RunWorker" =>
                       /\ k = 1
                       /\ last'.calls[k].arg[1] = last'.id
                       /\ last'.id \in DOMAIN db'
                       /\ last'.id \notin DOMAIN db
                       /\ files'[CodeDir(last'.id)] = "file"
            /\ last'.ret \notin {"storage_error", "db_create_error"} =>
                   /\ Len(last'.calls) >= 1
                   /\ last'.calls[1].fn = "RunWorker"
            /\ (last'.calls # <<>> /\ last'.calls[1].ret = "panic") =>
                   db'[last'.id] = [NewFunction(last'.id, db'[last'.id].FunctionName)
                                       EXCEPT !.CreatedAt = db'[last'.id].CreatedAt]]_vars

C29_Witness ==
    /\ last.op = "AddFunction"
    /\ last.ret = "db_create_error"
    /\ last.calls = <<>>
    /\ last.id \notin DOMAIN db
    /\ files[CodeDir(last.id)] = "file"
    /\ ResourcesOf(env, backend, WorkerName(last.id)) = {}

\* ---------------------------------------------------------------- C30
RequestOps == {"AddFunction", "ExecuteFunction", "ListFunctions", "RemoveFunction"}
PassOps == {"RestartRunningFunctions", "CleanupAllFunctions"}

\* the order in which main() goes through its stages; "exited" to "starting" is the
\* next process
Stages ==
    {<<"starting", "restarting">>, <<"starting", "serving">>, <<"restarting", "serving">>,
     <<"restarting", "exited">>, <<"serving", "stopping">>, <<"stopping", "cleaning">>,
     <<"stopping", "exited">>, <<"cleaning", "exited">>, <<"exited", "starting">>}

\* C30: a process runs RestartRunningFunctions once, and it has returned before a
\* request is served; it runs CleanupAllFunctions once, after the server has shut
\* down with no request in flight; no step of either pass is taken while requests are
\* served and no request is served while a pass runs.  (A pass that panics ends the
\* process, which then serves nothing and cleans up nothing.)
C30_PassesApartFromRequests ==
    /\ [](/\ phase = "serving" => batch = NoBatch
          /\ last.op \in RequestOps => phase = "serving"
          /\ phase \in {"restarting", "stopping", "cleaning"} => inflight = NoRequests)
    /\ [][/\ phase' # phase => <<phase, phase'>> \in Stages
          /\ (phase # "serving" /\ phase' = "serving") =>
                 /\ last'.op = "RestartRunningFunctions"
                 /\ last'.ret \in {"ok", "db_error"}
                 /\ batch.pending = {}
          /\ (phase = "exited" /\ phase' = "starting") => starts' = starts + 1
          /\ phase' = phase => starts' = starts
          /\ (phase = "serving" /\ phase' # "serving") =>
                 /\ last'.op = "Shutdown"
                 /\ inflight = NoRequests
          /\ (last' # last /\ last'.op \in RequestOps) =>
                 /\ phase = "serving" /\ phase' = "serving"
                 /\ batch = NoBatch /\ batch' = NoBatch
          /\ (batch' # batch \/ (last' # last /\ last'.op \in PassOps)) =>
                 /\ phase # "serving"
                 /\ inflight = NoRequests /\ inflight' = NoRequests
          /\ (last' # last /\ last'.op = "RestartRunningFunctions") =>
                 phase \in {"starting", "restarting"}
          /\ (last' # last /\ last'.op = "CleanupAllFunctions") =>
                 /\ phase \in {"stopping", "cleaning"}
                 /\ phase' = "exited"]_vars

C30_Witness ==
    /\ starts = 1
    /\ phase = "exited"
    /\ last.op = "CleanupAllFunctions"
    /\ last.ret = "ok"
    /\ last.calls # <<>>
    /\ \E i \in DOMAIN db : db[i].Status = "running"

\* ---------------------------------------------------------------- C31
\* the RunWorker calls the manager makes in a step (AddFunction makes its one call
\* first; a turn of the restart loop appends one to the calls of the pass)
StepRuns ==
    { c \in (IF phase = "restarting" /\ Len(batch'.calls) = Len(batch.calls) + 1
               THEN {batch'.calls[Len(batch'.calls)]}
             ELSE IF phase = "restarting" /\ phase' = "exited"
               THEN {last'.calls[Len(last'.calls)]}
             ELSE IF last' # last /\ last'.op = "AddFunction" /\ last'.calls # <<>>
               THEN {last'.calls[1]}
             ELSE {}) : c.fn = "RunWorker" }

Issued(c, name) == \E k \in DOMAIN c.api : c.api[k][1] = name

\* C31: a RunWorker call of the docker adapter looks the image up first; it calls
\* ImagePull exactly when that lookup reports not-found (never when the image is
\* there, never when the lookup failed otherwise), and then directly after the
\* lookup; when the lookup fails otherwise or the pull cannot be started the call
\* returns an error having removed and created no container.
C31_PullOnlyOnMiss ==
    [][env = "docker" =>
        \A c \in StepRuns :
            /\ c.api[1] = <<"ImageInspect">>
            /\ Issued(c, "ImagePull") <=> (~backend.image /\ "image_inspect" \notin c.faults)
            /\ \A k \in DOMAIN c.api : c.api[k] = <<"ImagePull">> => k = 2
            /\ backend.image => backend'.image
            /\ ("image_inspect" \in c.faults \/ (~backend.image /\ "image_pull" \in c.faults)) =>
                   /\ c.ret = "error"
                   /\ ~Issued(c, "ContainerRemove")
                   /\ ~Issued(c, "ContainerCreate")
                   /\ backend'.containers = backend.containers]_vars

\* a second function added with the image already there: no pull
C31_Witness ==
    /\ env = "docker"
    /\ last.op = "AddFunction"
    /\ last.ret = "ok"
    /\ Cardinality(backend.containers) = 2
    /\ last.calls[1].api[1] = <<"ImageInspect">>
    /\ last.calls[1].api[2][1] = "ContainerRemove"
    /\ ~Issued(last.calls[1], "ImagePull")

\* ---------------------------------------------------------------- C32
\* the objects (kind, name) a kubernetes RunWorker that meets no failure creates for
\* funcID on an empty cluster, with the handle it returns
Provisioned(funcID) ==
    LET run == K8sRunWorker(EmptyBackend, [d \in {CodeDir(funcID)} |-> "file"], funcID,
                            CodeDir(funcID), handlerPrefix \o <<"h">>, "none", 9)
    IN  [handle |-> run.handle, names |-> { <<o.kind, o.name>> : o \in run.be.objects }]

\* the objects a kubernetes StopAndRemoveContainer that meets no failure asks the
\* API server to delete, given containerID
Reconstructed(containerID) ==
    LET td == K8sStopAndRemoveContainer(EmptyBackend, containerID, {})
    IN  { <<td.api[k][2], td.api[k][3]>> : k \in DOMAIN td.api }

\* function ids of several lengths, some a prefix or a suffix of another, some
\* holding the separator
SampleIds ==
    IDs \cup {<<"a", "b">>, <<"b", "a">>, <<"-", "a">>, <<"a", "-">>, <<"a", "-", "b">>}

\* C32: the four names a kubernetes teardown rebuilds from the handle RunWorker
\* returned for a function id (deployment, service, configmap, HPA) are the names
\* RunWorker created for that id, no function id shares a name with another, and so
\* it is in every run: a completed teardown of a function's handle asks for exactly
\* that function's objects, and every live object is one of those of exactly one id
\* handed out.
C32_NamesReconstructed ==
    /\ \A i \in SampleIds :
          /\ Cardinality(Provisioned(i).names) = 4
          /\ Reconstructed(Provisioned(i).handle) = Provisioned(i).names
          /\ \A j \in SampleIds \ {i} :
                 /\ Provisioned(i).names \cap Provisioned(j).names = {}
                 /\ Provisioned(i).handle # Provisioned(j).handle
    /\ env = "kubernetes" =>
          /\ \A c \in TeardownCalls :
                 (c.fn = "StopAndRemoveContainer" /\ Len(c.api) = 4) =>
                     \A i \in usedIds :
                        c.arg = Provisioned(i).handle =>
                            { <<c.api[k][2], c.api[k][3]>> : k \in DOMAIN c.api }
                                = Provisioned(i).names
          /\ \A o \in backend.objects :
                 Cardinality({ i \in usedIds : <<o.kind, o.name>> \in Provisioned(i).names }) = 1

\* one function removed with all four of its objects, the other one's left alone
C32_Witness ==
    /\ env = "kubernetes"
    /\ last.op = "RemoveFunction"
    /\ last.ret = "ok"
    /\ Len(last.calls) = 1
    /\ last.calls[1].arg = Provisioned(last.id).handle
    /\ Len(last.calls[1].api) = 4
    /\ last.calls[1].faults = {}
    /\ \E i \in usedIds \ {last.id} :
          { <<o.kind, o.name>> : o \in backend.objects } = Provisioned(i).names

\* ---------------------------------------------------------------- C33
\* C33: every record in the store whose status is running holds a non-empty
\* ContainerID and a HostPort other than 0, whatever AddFunction, RemoveFunction,
\* RestartRunningFunctions and CleanupAllFunctions calls came before and whatever
\* failed in them.
C33_RunningHasHandleAndPort ==
    \A i \in DOMAIN db :
        db[i].Status = "running" => db[i].ContainerID # <<>> /\ db[i].HostPort # 0

\* the second process has cleaned up; one record is running, another one is not
C33_Witness ==
    /\ starts = 2
    /\ last.op = "CleanupAllFunctions"
    /\ last.calls # <<>>
    /\ \E i, j \in DOMAIN db :
          /\ db[i].Status = "running" /\ db[i].ContainerID # <<>> /\ db[i].HostPort # 0
          /\ db[j].Status \in {"error", "stopped"}

\* ---------------------------------------------------------------- C34
\* C34: when no request is in its handler (and, as here, every teardown made has
\* returned nil), every container the docker daemon holds is the worker of a function
\* that has a record, and that record's ContainerID is the container's id; also
\* when AddFunction and RemoveFunction requests overlap.
C34_NoOrphans ==
    (env = "docker" /\ phase = "serving" /\ inflight = NoRequests /\ last.ret # "panic") =>
        \A w \in backend.containers :
            \E i \in DOMAIN db : w.name = WorkerName(i) /\ db[i].ContainerID = w.id

LiveAsStored(f) ==
    /\ Answering(env, backend, f.ID, f.HostPort)
    /\ IF env = "docker"
       THEN \E w \in backend.containers : w.id = f.ContainerID /\ w.name = WorkerName(f.ID)
       ELSE f.ContainerID = WorkerName(f.ID)

\* C36: when CleanupAllFunctions has returned nil and every teardown it made
\* returned nil, the backend holds nothing of any record whose status is running;
\* when the RestartRunningFunctions of the next process has returned nil, every
\* record whose status is running has its worker live under the handle and port on
\* record, and every record whose RunWorker returned an error is stopped.
C36_ShutdownStartCycle ==
    /\ (/\ last.op = "CleanupAllFunctions" /\ last.ret = "ok"
        /\ \A k \in DOMAIN last.calls : last.calls[k].ret = "ok") =>
           \A i \in DOMAIN db :
              db[i].Status = "running" => ResourcesOf(env, backend, WorkerName(i)) = {}
    /\ (starts > 1 /\ last.op = "RestartRunningFunctions" /\ last.ret = "ok") =>
           /\ \A i \in DOMAIN db : db[i].Status = "running" => LiveAsStored(db[i])
           /\ \A r \in last.per : r.prov = "error" => db[r.id].Status = "stopped"

====
